---- MODULE Spec2Model ----
(***************************************************************************)
(* Model of the ULedger Go SDK core: the typed binary codec                *)
(* (pkg/transaction/serializer.go) and the chunked Merkle commitment       *)
(* builder with the signature commitment (pkg/transaction/transaction.go). *)
(*                                                                         *)
(* Go values are modelled as records [k |-> kind, v |-> content]:          *)
(*   null    v = <<>>                bool    v = TRUE / FALSE              *)
(*   int32   v = the integer         int64   v = <<high word, low word>>   *)
(*   float32 v = IEEE-754 bits       float64 v = <<high word, low word>>   *)
(*   string  v = sequence of bytes   bytes   v = sequence of bytes         *)
(*   array   v = sequence of values  map     v = function key -> value     *)
(* A 32-bit word is held as the signed integer with the same 32 bits, a    *)
(* 64-bit quantity as its two 32-bit words, most significant first.        *)
(* A Go byte slice is [arr |-> bytes from the slice start up to its        *)
(* capacity, len |-> its length]; cap = Len(arr).                          *)
(***************************************************************************)
EXTENDS Integers, Sequences, FiniteSets, TLC

VARIABLES pc, value, encoded, wire, tampered, decoded, merkle, commitment,
          session, hashers, calls

vars == <<pc, value, encoded, wire, tampered, decoded, merkle, commitment,
          session, hashers, calls>>

\* the codec and the stand-alone builder calls
codecVars == <<value, encoded, wire, tampered, decoded, merkle, commitment>>

(***************************************************************************)
(* Bounds of the exploration.                                              *)
(***************************************************************************)
\* longest array handed to Encode
MaxElems == 2
\* largest number of entries of a map handed to Encode
MaxKeys == 2
\* largest chunk size handed to the Merkle builders directly
MaxChunk == 4
\* largest depth handed to the hard-bound builder directly
MaxDepth == 2
\* how often a caller reuses one hash.Hash instance
MaxRuns == 2
MaxImports == 2

(***************************************************************************)
(* Type tags, serializer.go const block.                                   *)
(***************************************************************************)
TypeNull == 0
TypeBool == 1
TypeInt32 == 2
TypeInt64 == 3
TypeString == 4
TypeBytes == 5
TypeArray == 6
TypeMap == 7
TypeFloat32 == 8
TypeFloat64 == 9

\* a length of 2^24 or more: larger than every buffer explored, so all such
\* lengths behave alike in every comparison and slice bound below
Huge == 256 * 256 * 256

\* transaction.go const block
CHUNK_SIZE == 16
DEPTH == 6

\* byte width of the scalar field moduli, transaction.go var block:
\* ecc.BN254.ScalarField() has 254 bits, ecc.BW6_761.ScalarField() 377 bits
ECDSA_CURVE == 32
BLS_CURVE == 48

\* crypto/key.go KeyType
KeyTypeSecp256k1 == 0
KeyTypeMlDSA87 == 1
KeyTypeED25519 == 2
KeyTypeBLS12377 == 3

Null == [k |-> "null", v |-> <<>>]
\* the absent value that accompanies an error (Go: nil interface)
NoValue == [k |-> "none", v |-> <<>>]

Min(a, b) == IF a < b THEN a ELSE b

(***************************************************************************)
(* encoding/binary, big endian.                                            *)
(***************************************************************************)
\* binary.BigEndian.PutUint32 of a 32-bit word
PutUint32LittleEndian(w) ==
    << w % 256, (w \div 256) % 256, (w \div 65536) % 256, (w \div 16777216) % 256 >>

PutUint32(w) ==
    << (w \div 16777216) % 256, (w \div 65536) % 256, (w \div 256) % 256, w % 256 >>

\* binary.BigEndian.PutUint64 of a 64-bit quantity <<hi, lo>>
PutUint64(q) == PutUint32(q[1]) \o PutUint32(q[2])

\* binary.BigEndian.Uint32 read as an unsigned length or count
Uint32(b) ==
    IF b[1] = 0 THEN (b[2] * 256 + b[3]) * 256 + b[4] ELSE Huge

\* binary.BigEndian.Uint32 kept as a 32-bit word (int32(...), Float32frombits)
Word32(b) ==
    (((IF b[1] >= 128 THEN b[1] - 256 ELSE b[1]) * 256 + b[2]) * 256 + b[3]) * 256 + b[4]

\* binary.BigEndian.Uint64 kept as two words
Word64(b) == << Word32(SubSeq(b, 1, 4)), Word32(SubSeq(b, 5, 8)) >>

(***************************************************************************)
(* sort.Strings: byte-wise ascending order of the keys.                    *)
(***************************************************************************)
RECURSIVE StrLess(_, _)
StrLess(a, b) ==
    IF Len(b) = 0 THEN FALSE
    ELSE IF Len(a) = 0 THEN TRUE
    ELSE IF a[1] # b[1] THEN a[1] < b[1]
    ELSE StrLess(Tail(a), Tail(b))

RECURSIVE InsertSorted(_, _)
InsertSorted(s, x) ==
    IF Len(s) = 0 THEN <<x>>
    ELSE IF StrLess(x, s[1]) THEN <<x>> \o s
    ELSE <<s[1]>> \o InsertSorted(Tail(s), x)

RECURSIVE SortStringsRec(_, _)
SortStringsRec(keys, acc) ==
    IF Len(keys) = 0 THEN acc
    ELSE SortStringsRec(Tail(keys), InsertSorted(acc, keys[1]))

SortStringsOmitted(keys) == keys

SortStrings(keys) == SortStringsRec(keys, <<>>)

\* the order in which "for k := range v" yields the keys of a map; the
\* runtime picks it, seed enumerates the permutations of the key set
RECURSIVE RangeKeys(_, _)
RangeKeys(S, seed) ==
    IF S = {} THEN <<>>
    ELSE LET n == Cardinality(S)
             r == seed % n
             x == CHOOSE y \in S : Cardinality({z \in S : StrLess(z, y)}) = r
         IN  <<x>> \o RangeKeys(S \ {x}, seed \div n)

(***************************************************************************)
(* Encode, serializer.go 41-163.                                           *)
(***************************************************************************)
EncOk(b) == [st |-> "ok", b |-> b]
\* return nil, err
EncErr == [st |-> "err", b |-> <<>>]

\* binary.BigEndian.PutUint32(result[sizePos:], uint32(totalSize)), sizePos = 5
PutSize(result, totalSize) ==
    SubSeq(result, 1, 5) \o PutUint32(totalSize) \o SubSeq(result, 10, Len(result))

RECURSIVE Encode(_, _)

\* the element loop of the slice branch, lines 55-65
RECURSIVE EncodeSliceLoopPartial(_, _, _, _, _)
EncodeSliceLoopPartial(val, i, result, totalSize, seed) ==
    IF i > Len(val) THEN EncOk(PutSize(result, totalSize))
    ELSE LET elemEnc == Encode(val[i], seed)
         IN  IF elemEnc.st # "ok" THEN [st |-> "err", b |-> result]
             ELSE EncodeSliceLoopPartial(val, i + 1, result \o elemEnc.b,
                                         totalSize + Len(elemEnc.b), seed)

RECURSIVE EncodeSliceLoop(_, _, _, _, _)
EncodeSliceLoop(val, i, result, totalSize, seed) ==
    IF i > Len(val) THEN EncOk(PutSize(result, totalSize))
    ELSE LET elemEnc == Encode(val[i], seed)
         IN  IF elemEnc.st # "ok" THEN EncErr
             ELSE EncodeSliceLoop(val, i + 1, result \o elemEnc.b,
                                  totalSize + Len(elemEnc.b), seed)

\* the slice branch, lines 45-66
EncodeSlice(val, seed) ==
    EncodeSliceLoop(val, 1, <<TypeArray>> \o PutUint32(Len(val)) \o <<0, 0, 0, 0>>, 0, seed)

\* the entry loop of the map branch, lines 138-160
RECURSIVE EncodeMapLoop(_, _, _, _, _, _)
EncodeMapLoop(v, keys, i, result, totalSize, seed) ==
    IF i > Len(keys) THEN EncOk(PutSize(result, totalSize))
    ELSE LET k == keys[i]
             keyEnc == Encode([k |-> "string", v |-> k], seed)
             valEnc == Encode(v[k], seed)
         IN  IF keyEnc.st # "ok" THEN EncErr
             ELSE IF valEnc.st # "ok" THEN EncErr
             ELSE EncodeMapLoop(v, keys, i + 1, result \o keyEnc.b \o valEnc.b,
                                totalSize + Len(keyEnc.b) + Len(valEnc.b), seed)

\* the map[string]interface{} branch, lines 121-160
EncodeMap(v, seed) ==
    LET keys == SortStrings(RangeKeys(DOMAIN v, seed))
    IN  EncodeMapLoop(v, keys, 1, <<TypeMap>> \o PutUint32(Len(keys)) \o <<0, 0, 0, 0>>, 0, seed)

Encode(data, seed) ==
    CASE data.k = "array"   -> EncodeSlice(data.v, seed)
      [] data.k = "null"    -> EncOk(<<TypeNull, 0, 0, 0, 0>>)
      [] data.k = "bool"    -> EncOk(<<TypeBool, 0, 0, 0, 1>> \o (IF data.v THEN <<1>> ELSE <<0>>))
      [] data.k = "int32"   -> EncOk(<<TypeInt32>> \o PutUint32(4) \o PutUint32(data.v))
      [] data.k = "int64"   -> EncOk(<<TypeInt64>> \o PutUint32(8) \o PutUint64(data.v))
      [] data.k = "string"  -> EncOk(<<TypeString>> \o PutUint32(Len(data.v)) \o data.v)
      [] data.k = "bytes"   -> EncOk(<<TypeBytes>> \o PutUint32(Len(data.v)) \o data.v)
      [] data.k = "float32" -> EncOk(<<TypeFloat32>> \o PutUint32(4) \o PutUint32(data.v))
      [] data.k = "float64" -> EncOk(<<TypeFloat64>> \o PutUint32(8) \o PutUint64(data.v))
      [] data.k = "map"     -> EncodeMap(data.v, seed)
      [] OTHER              -> EncErr

(***************************************************************************)
(* Go slice expressions and their run-time bounds checks.                  *)
(***************************************************************************)
Cap(data) == Len(data.arr)

\* data[lo:hi] is legal iff 0 <= lo <= hi <= cap(data); it may reach past len
SliceOk(data, lo, hi) == lo <= hi /\ hi <= Cap(data)

Slice(data, lo, hi) == [arr |-> SubSeq(data.arr, lo + 1, Cap(data)), len |-> hi - lo]

\* the bytes data[lo:hi] holds
Bytes(data, lo, hi) == SubSeq(data.arr, lo + 1, hi)

(***************************************************************************)
(* Decode, serializer.go 165-265.  A result is [st, v, reads]: st is "ok"  *)
(* (value, nil), "err" (nil, error) or "panic" (run-time panic); reads     *)
(* lists the [off, size] of the sub-slices handed to the recursive calls.  *)
(***************************************************************************)
DecOk(v, reads) == [st |-> "ok", v |-> v, reads |-> reads]
DecErr(reads) == [st |-> "err", v |-> NoValue, reads |-> reads]
DecPanic(reads) == [st |-> "panic", v |-> NoValue, reads |-> reads]

RECURSIVE Decode(_)

\* the entry loop of the map branch, lines 221-240
RECURSIVE DecodeMapLoop(_, _, _, _, _, _)
DecodeMapLoop(data, numEntries, i, offset, result, reads) ==
    IF i >= numEntries THEN DecOk([k |-> "map", v |-> result], reads)
    ELSE IF ~SliceOk(data, offset + 1, offset + 5) THEN DecPanic(reads)
    ELSE LET keySize == Uint32(Bytes(data, offset + 1, offset + 5))
         IN
         IF ~SliceOk(data, offset, offset + 5 + keySize) THEN DecPanic(reads)
         ELSE LET keyIface == Decode(Slice(data, offset, offset + 5 + keySize))
                  reads1 == Append(reads, [off |-> offset, size |-> 5 + keySize])
                  offset1 == offset + 5 + keySize
              IN
              IF keyIface.st = "panic" THEN DecPanic(reads1)
              ELSE IF keyIface.st = "err" THEN DecErr(reads1)
              ELSE IF keyIface.v.k # "string" THEN DecErr(reads1)
              ELSE IF ~SliceOk(data, offset1 + 1, offset1 + 5) THEN DecPanic(reads1)
              ELSE LET valueSize == Uint32(Bytes(data, offset1 + 1, offset1 + 5))
                   IN
                   IF ~SliceOk(data, offset1, offset1 + 5 + valueSize) THEN DecPanic(reads1)
                   ELSE LET valueIface == Decode(Slice(data, offset1, offset1 + 5 + valueSize))
                            reads2 == Append(reads1, [off |-> offset1, size |-> 5 + valueSize])
                            offset2 == offset1 + 5 + valueSize
                        IN
                        IF valueIface.st = "panic" THEN DecPanic(reads2)
                        ELSE IF valueIface.st = "err" THEN DecErr(reads2)
                        ELSE DecodeMapLoop(data, numEntries, i + 1, offset2,
                                           (keyIface.v.v :> valueIface.v) @@ result, reads2)

\* the element loop of the array branch, lines 251-262
RECURSIVE DecodeArrayLoop(_, _, _, _, _, _)
DecodeArrayLoop(data, numElements, i, offset, result, reads) ==
    IF i >= numElements THEN DecOk([k |-> "array", v |-> result], reads)
    ELSE IF ~SliceOk(data, offset + 1, offset + 5) THEN DecPanic(reads)
    ELSE LET valueSize == Uint32(Bytes(data, offset + 1, offset + 5))
         IN
         IF ~SliceOk(data, offset, offset + 5 + valueSize) THEN DecPanic(reads)
         ELSE LET elem == Decode(Slice(data, offset, offset + 5 + valueSize))
                  reads1 == Append(reads, [off |-> offset, size |-> 5 + valueSize])
              IN
              IF elem.st = "panic" THEN DecPanic(reads1)
              ELSE IF elem.st = "err" THEN DecErr(reads1)
              ELSE DecodeArrayLoop(data, numElements, i + 1, offset + 5 + valueSize,
                                   Append(result, elem.v), reads1)

\* lines 212-218 and 241-246: the container header
DecodeContainer(data, dataType) ==
    IF ~SliceOk(data, 5, 9) THEN DecPanic(<<>>)
    ELSE LET count == Uint32(Bytes(data, 1, 5))
             totalSize == Uint32(Bytes(data, 5, 9))
         IN  IF data.len < 9 + totalSize THEN DecErr(<<>>)
             ELSE IF dataType = TypeMap
                  THEN DecodeMapLoop(data, count, 0, 9, <<>>, <<>>)
                  ELSE DecodeArrayLoop(data, count, 0, 9, <<>>, <<>>)

\* lines 177-211: a fixed-width scalar checks length against its width only,
\* then reads the body from data[5:] (data[5] for a bool)
DecodeFixed(data, length, width, kind) ==
    IF length # width THEN DecErr(<<>>)
    ELSE IF data.len - 5 < width THEN DecPanic(<<>>)
    ELSE LET body == Bytes(data, 5, 5 + width)
         IN  DecOk([k |-> kind,
                    v |-> CASE kind = "bool" -> body[1] # 0
                            [] kind \in {"int32", "float32"} -> Word32(body)
                            [] OTHER -> Word64(body)], <<>>)

\* lines 192-201: string and bytes check length against the body present
DecodeVar(data, length, kind) ==
    IF length # data.len - 5 THEN DecErr(<<>>)
    ELSE DecOk([k |-> kind, v |-> Bytes(data, 5, data.len)], <<>>)

Decode(data) ==
    IF data.len < 5 THEN DecErr(<<>>)
    ELSE LET dataType == data.arr[1]
             length == Uint32(Bytes(data, 1, 5))
         IN  CASE dataType = TypeNull    -> DecOk(Null, <<>>)
               [] dataType = TypeBool    -> DecodeFixed(data, length, 1, "bool")
               [] dataType = TypeInt32   -> DecodeFixed(data, length, 4, "int32")
               [] dataType = TypeInt64   -> DecodeFixed(data, length, 8, "int64")
               [] dataType = TypeString  -> DecodeVar(data, length, "string")
               [] dataType = TypeBytes   -> DecodeVar(data, length, "bytes")
               [] dataType = TypeFloat32 -> DecodeFixed(data, length, 4, "float32")
               [] dataType = TypeFloat64 -> DecodeFixed(data, length, 8, "float64")
               [] dataType = TypeMap     -> DecodeContainer(data, TypeMap)
               [] dataType = TypeArray   -> DecodeContainer(data, TypeArray)
               [] OTHER                  -> DecErr(<<>>)

(***************************************************************************)
(* Byte strings and digests that travel through the commitment code are    *)
(* blobs [h, k, v]: k = "nil" a nil slice, k = "data" raw bytes v,         *)
(* k = "leaf" / "node" the digest hasher h gives for a leaf / two children.*)
(***************************************************************************)
NilBytes == [h |-> "", k |-> "nil", v |-> <<>>]
Data(b) == [h |-> "", k |-> "data", v |-> b]

\* make([]byte, n)
Zeros(n) == [i \in 1..n |-> 0]

RECURSIVE Pow2(_)
Pow2(d) == IF d = 0 THEN 1 ELSE 2 * Pow2(d - 1)

(***************************************************************************)
(* gnark-crypto accumulator/merkletree as the builders use it              *)
(* (transaction.go 533, 542, 575, 580).                                    *)
(***************************************************************************)
LeafSum(h, data) == [h |-> h, k |-> "leaf", v |-> data]
NodeSum(h, a, b) == [h |-> h, k |-> "node", v |-> <<a, b>>]

\* the reader is cut into segments of segmentSize bytes, the last may be short
Segments(buf, segmentSize) ==
    [j \in 1..((Len(buf) + segmentSize - 1) \div segmentSize) |->
        SubSeq(buf, (j - 1) * segmentSize + 1, Min(j * segmentSize, Len(buf)))]

\* largest power of two strictly below n (n >= 2)
RECURSIVE SplitPoint(_, _)
SplitPoint(n, k) == IF 2 * k >= n THEN k ELSE SplitPoint(n, 2 * k)

RECURSIVE TreeRoot(_, _)
TreeRoot(h, leaves) ==
    IF Len(leaves) = 1 THEN LeafSum(h, leaves[1])
    ELSE LET k == SplitPoint(Len(leaves), 1)
         IN  NodeSum(h, TreeRoot(h, SubSeq(leaves, 1, k)),
                        TreeRoot(h, SubSeq(leaves, k + 1, Len(leaves))))

\* sibling digests of leaf idx (0-based), bottom-up
RECURSIVE ProofPath(_, _, _)
ProofPath(h, leaves, idx) ==
    IF Len(leaves) = 1 THEN <<>>
    ELSE LET k == SplitPoint(Len(leaves), 1)
             left == SubSeq(leaves, 1, k)
             right == SubSeq(leaves, k + 1, Len(leaves))
         IN  IF idx < k THEN Append(ProofPath(h, left, idx), TreeRoot(h, right))
             ELSE Append(ProofPath(h, right, idx - k), TreeRoot(h, left))

\* merkletree.BuildReaderProof: root, proof set (leaf data first), leaf count;
\* err is set when the reader ends before the leaf of proofIndex is reached
BuildReaderProof(buf, h, segmentSize, proofIndex) ==
    LET leaves == Segments(buf, segmentSize)
    IN  [root |-> IF Len(leaves) = 0 THEN NilBytes ELSE TreeRoot(h, leaves),
         proofSet |-> IF proofIndex >= Len(leaves) THEN <<>>
                      ELSE <<Data(leaves[proofIndex + 1])>> \o ProofPath(h, leaves, proofIndex),
         numLeaves |-> Len(leaves),
         err |-> IF proofIndex >= Len(leaves) THEN "index" ELSE ""]

\* number of siblings on the path of leaf idx in a tree of n leaves
RECURSIVE PathLen(_, _)
PathLen(n, idx) ==
    IF n <= 1 THEN 0
    ELSE LET k == SplitPoint(n, 1)
         IN  1 + (IF idx < k THEN PathLen(k, idx) ELSE PathLen(n - k, idx - k))

RECURSIVE FoldPath(_, _, _, _, _)
FoldPath(h, n, idx, sum, path) ==
    IF n <= 1 THEN sum
    ELSE LET k == SplitPoint(n, 1)
             front == SubSeq(path, 1, Len(path) - 1)
             last == path[Len(path)]
         IN  IF idx < k THEN NodeSum(h, FoldPath(h, k, idx, sum, front), last)
             ELSE NodeSum(h, last, FoldPath(h, n - k, idx - k, sum, front))

\* merkletree.VerifyProof
VerifyProof(h, merkleRoot, proofSet, proofIndex, numLeaves) ==
    /\ merkleRoot # NilBytes
    /\ proofIndex < numLeaves
    /\ Len(proofSet) = 1 + PathLen(numLeaves, proofIndex)
    /\ FoldPath(h, numLeaves, proofIndex, LeafSum(h, proofSet[1].v),
                SubSeq(proofSet, 2, Len(proofSet))) = merkleRoot

(***************************************************************************)
(* GenerateMerkleTreeWithHardBound, transaction.go 492-548.                *)
(* A result is [st, err, root, proofElements, proofChunk, numLeaves, buf]; *)
(* st = "panic" is a run-time panic, buf the bytes written to the buffer.  *)
(***************************************************************************)
MerkleFail(st, err, buf) ==
    [st |-> st, err |-> err, root |-> NilBytes, proofElements |-> <<>>,
     proofChunk |-> NilBytes, numLeaves |-> 0, buf |-> buf]

\* line 493
MaxSizeOffByOne(chunkSize, depth) == chunkSize * Pow2(depth) + 1

MaxSize(chunkSize, depth) == chunkSize * Pow2(depth)

\* lines 503-515: the chunk of slot i before the proof chunk is taken;
\* <<>> stands for the panic of make([]byte, n) with n < 0
HardBoundChunk(payload, modulusSizeBytes, chunkSize, i) ==
    LET chunk == Zeros(chunkSize)
    IN  IF i * chunkSize < Len(payload)
        THEN LET start == i * chunkSize
                 end == Min(start + chunkSize, Len(payload))
                 filled == chunk \o SubSeq(payload, start + 1, end)
             IN  IF modulusSizeBytes - Len(filled) < 0 THEN [st |-> "panic", chunk |-> <<>>]
                 ELSE [st |-> "ok", chunk |-> filled \o Zeros(modulusSizeBytes - Len(filled))]
        ELSE [st |-> "ok", chunk |-> chunk]

\* lines 517-530: what slot i contributes, given its chunk c
HardBoundSlot(c, modulusSizeBytes) ==
    LET chunk == IF Len(c.chunk) < modulusSizeBytes
                 THEN c.chunk \o Zeros(modulusSizeBytes - Len(c.chunk))
                 ELSE c.chunk
    IN  IF c.st = "panic" \/ modulusSizeBytes - Len(chunk) < 0
        THEN [st |-> "panic", proofChunk |-> Data(c.chunk), written |-> <<>>]
        ELSE [st |-> "ok", proofChunk |-> Data(c.chunk),
              written |-> Zeros(modulusSizeBytes - Len(chunk)) \o chunk]

\* concatenation of the byte strings a loop wrote to the buffer
Concat(pieces) ==
    LET total == IF Len(pieces) = 0 THEN 0 ELSE Len(pieces) * Len(pieces[1])
    IN  [x \in 1..total |-> pieces[((x - 1) \div Len(pieces[1])) + 1][((x - 1) % Len(pieces[1])) + 1]]

\* lines 502-531: the slots are processed in order, the loop stops at the
\* first slot that panics; all pieces written have modulusSizeBytes bytes
HardBoundLoop(payload, modulusSizeBytes, chunkSize, depth, proofIndex) ==
    LET slots == [i \in 0..(Pow2(depth) - 1) |->
                     HardBoundSlot(HardBoundChunk(payload, modulusSizeBytes, chunkSize, i),
                                   modulusSizeBytes)]
        bad == {i \in DOMAIN slots : slots[i].st = "panic"}
        stop == IF bad = {} THEN Pow2(depth) ELSE CHOOSE i \in bad : \A j \in bad : i <= j
    IN  [st |-> IF bad = {} THEN "ok" ELSE "panic",
         buf |-> Concat([j \in 1..stop |-> slots[j - 1].written]),
         proofChunk |-> IF proofIndex < stop THEN slots[proofIndex].proofChunk ELSE NilBytes]

\* lines 534-547: the checks on what the library built (tree) from the leaves
\* written (built)
HardBoundChecked(built, tree, depth, hasher, proofIndex) ==
    IF tree.err # "" THEN MerkleFail("err", tree.err, built.buf)
    ELSE IF tree.numLeaves # Pow2(depth) THEN MerkleFail("err", "shape", built.buf)
    ELSE IF ~VerifyProof(hasher, tree.root, tree.proofSet, proofIndex, tree.numLeaves)
         THEN MerkleFail("err", "proof", built.buf)
    ELSE [st |-> "ok", err |-> "", root |-> tree.root,
          proofElements |-> tree.proofSet, proofChunk |-> built.proofChunk,
          numLeaves |-> tree.numLeaves, buf |-> built.buf]

\* lines 533-547, given the leaves written
HardBoundTree(built, modulusSizeBytes, depth, hasher, proofIndex) ==
    IF built.st = "panic" THEN MerkleFail("panic", "", built.buf)
    ELSE HardBoundChecked(built, BuildReaderProof(built.buf, hasher, modulusSizeBytes, proofIndex),
                          depth, hasher, proofIndex)

GenerateMerkleTreeWithHardBound(payload, modulusSizeBytes, chunkSize, depth, hasher, proofIndex) ==
    IF Len(payload) > MaxSize(chunkSize, depth) THEN MerkleFail("err", "size", <<>>)
    ELSE HardBoundTree(HardBoundLoop(payload, modulusSizeBytes, chunkSize, depth, proofIndex),
                       modulusSizeBytes, depth, hasher, proofIndex)

(***************************************************************************)
(* GenerateMerkleTree (exact mode), transaction.go 550-586.  A result is   *)
(* [st, err, root, proofElements, proofChunk, numLeaves, treeDepth, buf].  *)
(***************************************************************************)
ExactFail(st, err, buf) ==
    [st |-> st, err |-> err, root |-> NilBytes, proofElements |-> <<>>,
     proofChunk |-> NilBytes, numLeaves |-> 0, treeDepth |-> 0, buf |-> buf]

\* lines 559-572: what leaf i writes to the buffer; make([]byte, n) with
\* n < 0 panics
ExactLeaf(payload, modulusSizeBytes, chunkSize, i) ==
    LET start == i * chunkSize
        end == Min(start + chunkSize, Len(payload))
        chunk == SubSeq(payload, start + 1, end)
    IN  IF modulusSizeBytes - Len(chunk) < 0 THEN [st |-> "panic", written |-> <<>>]
        ELSE [st |-> "ok", written |-> Zeros(modulusSizeBytes - Len(chunk)) \o chunk]

\* lines 554-573: the leaves are written in order, the loop stops at the
\* first leaf that panics; the proof chunk is a copy of the padded chunk
ExactLoop(payload, modulusSizeBytes, chunkSize, proofIndex) ==
    LET nrLeaves == (Len(payload) + chunkSize - 1) \div chunkSize
        leaves == [i \in 0..(nrLeaves - 1) |-> ExactLeaf(payload, modulusSizeBytes, chunkSize, i)]
        bad == {i \in DOMAIN leaves : leaves[i].st = "panic"}
        stop == IF bad = {} THEN nrLeaves ELSE CHOOSE i \in bad : \A j \in bad : i <= j
    IN  [st |-> IF bad = {} THEN "ok" ELSE "panic",
         buf |-> Concat([j \in 1..stop |-> leaves[j - 1].written]),
         proofChunk |-> IF proofIndex < stop THEN Data(leaves[proofIndex].written) ELSE NilBytes]

\* int(math.Log2(float64(n))) for n >= 1
RECURSIVE Log2(_)
Log2(n) == IF n <= 1 THEN 0 ELSE 1 + Log2(n \div 2)

\* the checks of lines 576-583 left out
ExactUnchecked(built, tree, hasher, proofIndex) ==
    [st |-> "ok", err |-> "", root |-> tree.root,
     proofElements |-> tree.proofSet, proofChunk |-> built.proofChunk,
     numLeaves |-> tree.numLeaves, treeDepth |-> Log2(tree.numLeaves), buf |-> built.buf]

\* lines 576-585: the checks on what the library built (tree) from the leaves
\* written (built)
ExactChecked(built, tree, hasher, proofIndex) ==
    IF tree.err # "" THEN ExactFail("err", tree.err, built.buf)
    ELSE IF ~VerifyProof(hasher, tree.root, tree.proofSet, proofIndex, tree.numLeaves)
         THEN ExactFail("err", "proof", built.buf)
    ELSE [st |-> "ok", err |-> "", root |-> tree.root,
          proofElements |-> tree.proofSet, proofChunk |-> built.proofChunk,
          numLeaves |-> tree.numLeaves, treeDepth |-> Log2(tree.numLeaves), buf |-> built.buf]

\* lines 575-585, given the leaves written
ExactTree(built, modulusSizeBytes, hasher, proofIndex) ==
    IF built.st = "panic" THEN ExactFail("panic", "", built.buf)
    ELSE ExactChecked(built, BuildReaderProof(built.buf, hasher, modulusSizeBytes, proofIndex),
                      hasher, proofIndex)

GenerateMerkleTree(payload, modulusSizeBytes, chunkSize, hasher, proofIndex) ==
    ExactTree(ExactLoop(payload, modulusSizeBytes, chunkSize, proofIndex),
              modulusSizeBytes, hasher, proofIndex)

(***************************************************************************)
(* The signature commitment, transaction.go 291-376.                       *)
(***************************************************************************)
\* splitHash32: the two 16-byte halves of sha256(data)
splitHash32(data) ==
    << [h |-> "sha256", k |-> "high", v |-> data], [h |-> "sha256", k |-> "low", v |-> data] >>

\* crypto/key.go GetHasherByType
GetHasherByType(keyType) ==
    CASE keyType = KeyTypeSecp256k1 -> "mimc_bn254"
      [] keyType = KeyTypeBLS12377  -> "mimc_bw6_761"
      [] OTHER                      -> "mimc_bn254"

\* BlockSize of the hash: the byte width of an element of its field
BlockSize(alg) == IF alg = "mimc_bw6_761" THEN BLS_CURVE ELSE ECDSA_CURVE

FieldAlwaysECDSA(keyType) == ECDSA_CURVE

\* the switch on t.KeyType, lines 346-351
FieldOf(keyType) == IF keyType = KeyTypeBLS12377 THEN BLS_CURVE ELSE ECDSA_CURVE

\* TransactionCommitment{}
EmptyCommitment ==
    [BlockchainIdHigh |-> NilBytes, BlockchainIdLow |-> NilBytes,
     FromHigh |-> NilBytes, FromLow |-> NilBytes, ToHigh |-> NilBytes, ToLow |-> NilBytes,
     PayloadRoot |-> NilBytes, Timestamp |-> 0,
     SuggestorHigh |-> NilBytes, SuggestorLow |-> NilBytes,
     ProofElements |-> <<>>, ChunkIndex |-> 0, NumLeaves |-> 0, ChunkSize |-> 0,
     ProofChunk |-> NilBytes, Depth |-> 0]

\* lines 320-375: the commitment made of the hashes of the fields and of
\* what the builder returned (m)
CommitmentOf(t, m) ==
    IF m.st # "ok" THEN [st |-> m.st, err |-> m.err, c |-> EmptyCommitment]
    ELSE [st |-> "ok", err |-> "",
          c |-> [BlockchainIdHigh |-> splitHash32(t.BlockchainId)[1],
                 BlockchainIdLow |-> splitHash32(t.BlockchainId)[2],
                 FromHigh |-> splitHash32(t.From)[1], FromLow |-> splitHash32(t.From)[2],
                 ToHigh |-> splitHash32(t.To)[1], ToLow |-> splitHash32(t.To)[2],
                 PayloadRoot |-> m.root, Timestamp |-> t.SenderTimestamp,
                 SuggestorHigh |-> splitHash32(t.Suggestor)[1],
                 SuggestorLow |-> splitHash32(t.Suggestor)[2],
                 ProofElements |-> m.proofElements, ChunkIndex |-> 0,
                 NumLeaves |-> m.numLeaves, ChunkSize |-> CHUNK_SIZE,
                 ProofChunk |-> m.proofChunk, Depth |-> DEPTH]]

GetSignatureCommitment(t, hasher) ==
    CommitmentOf(t, GenerateMerkleTreeWithHardBound(t.Payload, FieldOf(t.KeyType),
                                                    CHUNK_SIZE, DEPTH, hasher, 0))

\* GetUnboundCommitment, lines 378-394: the exact-mode root of the payload
UnboundRoot(m) ==
    IF m.st # "ok" THEN [st |-> m.st, err |-> m.err, root |-> NilBytes]
    ELSE [st |-> "ok", err |-> "", root |-> m.root]

GetUnboundCommitment(t, hasher) ==
    UnboundRoot(GenerateMerkleTree(t.Payload, FieldOf(t.KeyType), CHUNK_SIZE, hasher, 0))

(***************************************************************************)
(* A hash.Hash instance (gnark-crypto MiMC): alg names the permutation,    *)
(* state is the chaining value, data the segments written since the last   *)
(* Sum or Reset.  A digest is a function of all three.                     *)
(***************************************************************************)
ZeroState == [h |-> "", k |-> "zero", v |-> <<>>]

NewHasher(alg) == [alg |-> alg, state |-> ZeroState, data |-> <<>>]

ResetOmitted(hasher) == hasher

Reset(hasher) == [hasher EXCEPT !.state = ZeroState, !.data = <<>>]

Write(hasher, p) == [hasher EXCEPT !.data = Append(@, p)]

\* the digest Sum(nil) returns
Sum(hasher) ==
    [h |-> hasher.alg, k |-> "sum", v |-> [state |-> hasher.state, data |-> hasher.data]]

\* the instance after Sum: the written data is consumed into the state
AfterSum(hasher) == [hasher EXCEPT !.state = Sum(hasher), !.data = <<>>]

\* GetHasherByType returns a new instance: the next place in the heap
HasherShared(heap) == 1

HasherFor(heap) == Len(heap) + 1

\* the instance after a builder call with proof index 0: the library resets
\* it before every leaf and node it hashes and the last digest it computes
\* is the root; a call that fails or panics has not hashed anything
AfterBuild(hasher, st, root) ==
    IF st = "ok" THEN [hasher EXCEPT !.state = root, !.data = <<>>] ELSE hasher

\* binary.Write(hasher, binary.BigEndian, commitment.Timestamp): a uint64
Uint64Bytes(n) == Data(PutUint64(<<0, n>>))

\* lines 398-407: the segments in the order they are written
PreimageTimestampLast(c) ==
    <<c.BlockchainIdHigh, c.BlockchainIdLow, c.FromHigh, c.FromLow, c.ToHigh, c.ToLow,
      c.PayloadRoot, c.SuggestorHigh, c.SuggestorLow, Uint64Bytes(c.Timestamp)>>

Preimage(c) ==
    <<c.BlockchainIdHigh, c.BlockchainIdLow, c.FromHigh, c.FromLow, c.ToHigh, c.ToLow,
      c.PayloadRoot, Uint64Bytes(c.Timestamp), c.SuggestorHigh, c.SuggestorLow>>

\* the instance after the first n segments have been written
RECURSIVE WriteAll(_, _, _)
WriteAll(hasher, segments, n) ==
    IF n = 0 THEN hasher ELSE Write(WriteAll(hasher, segments, n - 1), segments[n])

\* HashSignatureCommitment, lines 396-410: the digest and the instance after
Summed(fed) == [sum |-> Sum(fed), hasher |-> AfterSum(fed)]

HashSignatureCommitment(hasher, c) ==
    Summed(WriteAll(Reset(hasher), Preimage(c), Len(Preimage(c))))

(***************************************************************************)
(* GenerateTransaction, transaction_session.go 104-191.                    *)
(***************************************************************************)
\* ULTransactionType.String(), transaction.go 113-156
String(tt) ==
    CASE tt = "TX_DATA" -> "DATA"
      [] tt = "TX_CREATE_WALLET" -> "CREATE_WALLET"
      [] tt = "TX_ALTER_WALLET" -> "ALTER_WALLET"
      [] tt \in {"DEPLOY_SMART_CONTRACT", "INVOKE_SMART_CONTRACT", "UPGRADE_SMART_CONTRACT",
                 "ROLLBACK_SMART_CONTRACT", "CREATE_TOKEN", "TRANSFER_TOKEN", "APPROVE_TOKEN",
                 "MINT_TOKEN", "BURN_TOKEN", "MINT_NFT", "TRANSFER_NFT", "APPROVE_NFT",
                 "SET_APPROVAL_FOR_ALL", "TRANSFER_MULTI_TOKEN", "MINT_MULTI_TOKEN",
                 "CONVERT_TOKEN"} -> tt
      [] OTHER -> ""

\* crypto.BytesToHex: upper-case hexadecimal, two digits a byte
BytesToHex(b) == [h |-> "hex", k |-> "upper", v |-> b]
\* the empty string in a field that holds hexadecimal text
NoHex == [h |-> "hex", k |-> "", v |-> <<>>]

\* ULTransactionInput{}
EmptyInput ==
    [BlockchainId |-> "", To |-> "", From |-> "", Payload |-> <<>>, SenderSignature |-> NoHex,
     PayloadType |-> "", Suggestor |-> "", SenderTimestamp |-> 0, PayloadRoot |-> NoHex,
     KeyType |-> KeyTypeSecp256k1]

\* ULTransaction{}
EmptyTransaction == [input |-> EmptyInput, TransactionId |-> ""]

\* lines 107-115
Prepare(s, input, now) ==
    [input EXCEPT !.Suggestor = s.suggestor,
                  !.SenderTimestamp = now,
                  !.From = IF input.PayloadType # String("TX_CREATE_WALLET")
                           THEN s.wallet.Address ELSE @,
                  !.KeyType = s.wallet.keyType]

\* the condition of lines 122-123, with one of its four types left out
UnboundWithoutAlter(payloadType) ==
    payloadType \in {String("DEPLOY_SMART_CONTRACT"), String("UPGRADE_SMART_CONTRACT"),
                     String("TX_CREATE_WALLET")}

Unbound(payloadType) ==
    payloadType \in {String("DEPLOY_SMART_CONTRACT"), String("UPGRADE_SMART_CONTRACT"),
                     String("TX_CREATE_WALLET"), String("TX_ALTER_WALLET")}

\* the PayloadRoot the bound branch transmits, line 141
PayloadRootOfHash(c, sum) == BytesToHex(sum)

PayloadRootOf(c, sum) == BytesToHex(c.PayloadRoot)

\* ULKey.SignData: a signature of data under the wallet's key, or an error
\* when the wallet holds no private key
SignData(wallet, data) ==
    IF ~wallet.privateKey THEN [st |-> "err", sig |-> NilBytes]
    ELSE [st |-> "ok", sig |-> [h |-> "sig", k |-> wallet.Address, v |-> data]]

\* what a finished call leaves: the returned transaction and error, the
\* bytes handed to the signer and the input that was posted
Returned(st, err, tx, signed, posted) ==
    [st |-> st, err |-> err, tx |-> tx, signed |-> signed, posted |-> posted]

\* lines 153-190: the request is posted and the node's answer is parsed
Post(input, signed, resp) ==
    CASE resp.status = 0 ->
            Returned("err", "transport", EmptyTransaction, signed, input)
      [] resp.status \notin {0, 200, 201} ->
            Returned("err", "status", EmptyTransaction, signed, input)
      [] resp.status \in {200, 201} /\ resp.body = "garbage" ->
            Returned("err", "json", EmptyTransaction, signed, input)
      [] resp.status \in {200, 201} /\ resp.body = "empty" ->
            Returned("ok", "", EmptyTransaction, signed, input)
      [] OTHER ->
            Returned("ok", "", [input |-> input, TransactionId |-> "id"], signed, input)

\* the request posted whatever the signer returned
PostUnsigned(s, input, toSign, resp) ==
    Post([input EXCEPT !.SenderSignature = BytesToHex(SignData(s.wallet, toSign).sig)],
         toSign, resp)

\* lines 145-190
SignAndPost(s, input, toSign, resp) ==
    LET signature == SignData(s.wallet, toSign)
    IN  IF signature.st # "ok"
        THEN Returned("err", "sign", EmptyTransaction, toSign, EmptyInput)
        ELSE Post([input EXCEPT !.SenderSignature = BytesToHex(signature.sig)], toSign, resp)

\* lines 124-129: the unbound branch, given its commitment
UnboundBranch(s, input, u, resp) ==
    IF u.st # "ok" THEN Returned(u.st, u.err, EmptyTransaction, NilBytes, EmptyInput)
    ELSE SignAndPost(s, [input EXCEPT !.PayloadRoot = BytesToHex(u.root)], u.root, resp)

\* lines 140-190: the bound branch, once the commitment is hashed
BoundSigned(s, input, c, hashed, resp) ==
    SignAndPost(s, [input EXCEPT !.PayloadRoot = PayloadRootOf(c, hashed.sum)],
                hashed.sum, resp)

\* lines 131-142: the bound branch, given its commitment
BoundBranch(s, input, hasher, b, resp) ==
    IF b.st # "ok" THEN Returned(b.st, b.err, EmptyTransaction, NilBytes, EmptyInput)
    ELSE BoundSigned(s, input, b.c,
                     HashSignatureCommitment(AfterBuild(hasher, b.st, b.c.PayloadRoot), b.c),
                     resp)

\* lines 117-190, given the prepared input and the call's hasher
Branches(s, input, hasher, resp) ==
    IF Unbound(input.PayloadType)
    THEN UnboundBranch(s, input, GetUnboundCommitment(input, hasher.alg), resp)
    ELSE BoundBranch(s, input, hasher, GetSignatureCommitment(input, hasher.alg), resp)

\* the whole call, run alone with a hasher of its own
GenerateTransaction(s, given, now, resp) ==
    Branches(s, Prepare(s, given, now), NewHasher(GetHasherByType(s.wallet.keyType)), resp)

(***************************************************************************)
(* Hex strings, crypto/utils.go 51-63.  A string is the sequence of its    *)
(* ASCII codes.                                                            *)
(***************************************************************************)
\* a decoder that reads any other byte as the digit 0
fromHexCharLenient(c) ==
    CASE c \in 48..57  -> c - 48
      [] c \in 97..102 -> c - 87
      [] c \in 65..70  -> c - 55
      [] OTHER         -> 0

\* encoding/hex fromHexChar: the value of a hex digit, -1 for any other byte
fromHexChar(c) ==
    CASE c \in 48..57  -> c - 48
      [] c \in 97..102 -> c - 87
      [] c \in 65..70  -> c - 55
      [] OTHER         -> -1

\* hex.DecodeString fails on an odd length and on a byte that is no digit
HexToBytes(h) ==
    IF Len(h) % 2 = 1 \/ \E i \in 1..Len(h) : fromHexChar(h[i]) < 0
    THEN [st |-> "err", b |-> <<>>]
    ELSE [st |-> "ok",
          b |-> [i \in 1..(Len(h) \div 2) |->
                    16 * fromHexChar(h[2 * i - 1]) + fromHexChar(h[2 * i])]]

\* hex.EncodeToString: two lower-case digits per byte
EncodeToString(b) ==
    LET digit(n) == IF n < 10 THEN 48 + n ELSE 87 + n
    IN  [i \in 1..(2 * Len(b)) |->
            IF i % 2 = 1 THEN digit(b[(i + 1) \div 2] \div 16) ELSE digit(b[i \div 2] % 16)]

ToUpper(str) == [i \in 1..Len(str) |-> IF str[i] \in 97..122 THEN str[i] - 32 ELSE str[i]]
ToLower(str) == [i \in 1..Len(str) |-> IF str[i] \in 65..90 THEN str[i] + 32 ELSE str[i]]

\* BytesToHex on bytes the model holds one by one
UpperHex(b) == ToUpper(EncodeToString(b))

\* strings.EqualFold on ASCII strings
EqualFold(a, b) == ToLower(a) = ToLower(b)

(***************************************************************************)
(* The names of the transaction types, transaction.go 89-197.              *)
(***************************************************************************)
\* the characters of the strings String() returns, as the bytes of a Go string
Chars(str) ==
    CASE str = "DATA" ->
             <<68, 65, 84, 65>>
      [] str = "CREATE_WALLET" ->
             <<67, 82, 69, 65, 84, 69, 95, 87, 65, 76, 76, 69, 84>>
      [] str = "ALTER_WALLET" ->
             <<65, 76, 84, 69, 82, 95, 87, 65, 76, 76, 69, 84>>
      [] str = "DEPLOY_SMART_CONTRACT" ->
             <<68, 69, 80, 76, 79, 89, 95, 83, 77, 65, 82, 84, 95, 67, 79, 78, 84, 82, 65, 67, 84>>
      [] str = "INVOKE_SMART_CONTRACT" ->
             <<73, 78, 86, 79, 75, 69, 95, 83, 77, 65, 82, 84, 95, 67, 79, 78, 84, 82, 65, 67, 84>>
      [] str = "UPGRADE_SMART_CONTRACT" ->
             <<85, 80, 71, 82, 65, 68, 69, 95, 83, 77, 65, 82, 84, 95, 67, 79, 78, 84, 82, 65, 67, 84>>
      [] str = "ROLLBACK_SMART_CONTRACT" ->
             <<82, 79, 76, 76, 66, 65, 67, 75, 95, 83, 77, 65, 82, 84, 95, 67, 79, 78, 84, 82, 65, 67, 84>>
      [] str = "CREATE_TOKEN" ->
             <<67, 82, 69, 65, 84, 69, 95, 84, 79, 75, 69, 78>>
      [] str = "TRANSFER_TOKEN" ->
             <<84, 82, 65, 78, 83, 70, 69, 82, 95, 84, 79, 75, 69, 78>>
      [] str = "APPROVE_TOKEN" ->
             <<65, 80, 80, 82, 79, 86, 69, 95, 84, 79, 75, 69, 78>>
      [] str = "MINT_TOKEN" ->
             <<77, 73, 78, 84, 95, 84, 79, 75, 69, 78>>
      [] str = "BURN_TOKEN" ->
             <<66, 85, 82, 78, 95, 84, 79, 75, 69, 78>>
      [] str = "MINT_NFT" ->
             <<77, 73, 78, 84, 95, 78, 70, 84>>
      [] str = "TRANSFER_NFT" ->
             <<84, 82, 65, 78, 83, 70, 69, 82, 95, 78, 70, 84>>
      [] str = "APPROVE_NFT" ->
             <<65, 80, 80, 82, 79, 86, 69, 95, 78, 70, 84>>
      [] str = "SET_APPROVAL_FOR_ALL" ->
             <<83, 69, 84, 95, 65, 80, 80, 82, 79, 86, 65, 76, 95, 70, 79, 82, 95, 65, 76, 76>>
      [] str = "TRANSFER_MULTI_TOKEN" ->
             <<84, 82, 65, 78, 83, 70, 69, 82, 95, 77, 85, 76, 84, 73, 95, 84, 79, 75, 69, 78>>
      [] str = "MINT_MULTI_TOKEN" ->
             <<77, 73, 78, 84, 95, 77, 85, 76, 84, 73, 95, 84, 79, 75, 69, 78>>
      [] str = "CONVERT_TOKEN" ->
             <<67, 79, 78, 86, 69, 82, 84, 95, 84, 79, 75, 69, 78>>
      [] OTHER -> <<>>

\* what ParseTransactionType returns: the type and whether the error is nil
Parsed(st, tt) == [st |-> st, tt |-> tt]

\* ParseTransactionType, transaction.go 158-197: the switch on
\* strings.ToUpper(str) has a case for TX_DATA and for each type from
\* DEPLOY_SMART_CONTRACT to CONVERT_TOKEN
ParseTransactionType(str) ==
    CASE ToUpper(str) = Chars(String("TX_DATA")) -> Parsed("ok", "TX_DATA")
      [] ToUpper(str) = Chars(String("DEPLOY_SMART_CONTRACT")) -> Parsed("ok", "DEPLOY_SMART_CONTRACT")
      [] ToUpper(str) = Chars(String("INVOKE_SMART_CONTRACT")) -> Parsed("ok", "INVOKE_SMART_CONTRACT")
      [] ToUpper(str) = Chars(String("UPGRADE_SMART_CONTRACT")) -> Parsed("ok", "UPGRADE_SMART_CONTRACT")
      [] ToUpper(str) = Chars(String("ROLLBACK_SMART_CONTRACT")) -> Parsed("ok", "ROLLBACK_SMART_CONTRACT")
      [] ToUpper(str) = Chars(String("CREATE_TOKEN")) -> Parsed("ok", "CREATE_TOKEN")
      [] ToUpper(str) = Chars(String("TRANSFER_TOKEN")) -> Parsed("ok", "TRANSFER_TOKEN")
      [] ToUpper(str) = Chars(String("APPROVE_TOKEN")) -> Parsed("ok", "APPROVE_TOKEN")
      [] ToUpper(str) = Chars(String("MINT_TOKEN")) -> Parsed("ok", "MINT_TOKEN")
      [] ToUpper(str) = Chars(String("BURN_TOKEN")) -> Parsed("ok", "BURN_TOKEN")
      [] ToUpper(str) = Chars(String("MINT_NFT")) -> Parsed("ok", "MINT_NFT")
      [] ToUpper(str) = Chars(String("TRANSFER_NFT")) -> Parsed("ok", "TRANSFER_NFT")
      [] ToUpper(str) = Chars(String("APPROVE_NFT")) -> Parsed("ok", "APPROVE_NFT")
      [] ToUpper(str) = Chars(String("SET_APPROVAL_FOR_ALL")) -> Parsed("ok", "SET_APPROVAL_FOR_ALL")
      [] ToUpper(str) = Chars(String("TRANSFER_MULTI_TOKEN")) -> Parsed("ok", "TRANSFER_MULTI_TOKEN")
      [] ToUpper(str) = Chars(String("MINT_MULTI_TOKEN")) -> Parsed("ok", "MINT_MULTI_TOKEN")
      [] ToUpper(str) = Chars(String("CONVERT_TOKEN")) -> Parsed("ok", "CONVERT_TOKEN")
      [] OTHER -> Parsed("err", "INVALID_TX_TYPE")

(***************************************************************************)
(* The keys of package crypto.  A key is [type, publicKey, privateKey];    *)
(* each half is [set, b]: set says that the pointer is not nil (for BLS,   *)
(* whose halves are values, that the point is not the point at infinity    *)
(* and that the scalar is not zero), b holds the bytes the half            *)
(* marshals to, <<>> for a zero-valued struct.                             *)
(***************************************************************************)
Unset == [set |-> FALSE, b |-> <<>>]
Half(b) == [set |-> TRUE, b |-> b]
\* a BLS public key holding the point a; the zero value is the point at
\* infinity (bls12377_key.go 188)
PointHalf(a) == [set |-> a # <<>>, b |-> a]

\* New<Type>Key
NewKey(keyType) == [type |-> keyType, publicKey |-> Unset, privateKey |-> Unset]

\* key.go GetKeyByType
GetKeyByType(keyType) ==
    IF keyType \in {KeyTypeSecp256k1, KeyTypeMlDSA87, KeyTypeED25519, KeyTypeBLS12377}
    THEN [st |-> "ok", key |-> NewKey(keyType)]
    ELSE [st |-> "err", key |-> NewKey(keyType)]

\* what an import returns: the error, or a panic, and the key as it is left
Imported(st, key) == [st |-> st, key |-> key]

\* mldsa87.PublicKeySize, mldsa87.PrivateKeySize
MLDSAPublicKeySize == 2592
MLDSAPrivateKeySize == 4896
\* fp.Bytes and fr.Bytes of BLS12-377, bls12377_key.go 16-19
sizeFp == 48
sizeFr == 32
sizePublicKey == sizeFp
sizePrivateKey == sizeFr + sizePublicKey

\* the uncompressed secp256k1 point of the wallet tests (X, then Y)
TestPoint ==
    <<242, 240, 253, 21, 186, 58, 127, 75, 166, 44, 215, 5, 196, 223, 128, 148,
      145, 126, 126, 133, 202, 179, 69, 190, 175, 11, 55, 143, 132, 163, 66, 44,
      237, 154, 156, 249, 37, 192, 93, 237, 118, 198, 58, 182, 119, 32, 114, 135,
      165, 182, 75, 47, 182, 131, 128, 58, 190, 249, 52, 37, 159, 163, 124, 93>>

\* a compressed BLS12-377 point: the flag bits 100 and an X coordinate
BlsPoint == [i \in 1..sizeFp |-> IF i = 1 THEN 128 ELSE i]

\* G1Affine.SetBytes of gnark-crypto accepts the encodings of the points of
\* the curve; of these the model holds one per curve
IsSecpPoint(b) == b = TestPoint
IsBlsPoint(b) == b = BlsPoint

\* ed25519_key.go 64-75
ED25519PublicFromHex(key, hex) ==
    IF key.publicKey.set THEN Imported("err", key)
    ELSE IF HexToBytes(hex).st # "ok" THEN Imported("err", key)
    ELSE Imported("ok", [key EXCEPT !.publicKey = Half(HexToBytes(hex).b)])

\* ed25519_key.go 77-88
ED25519PrivateFromHex(key, hex) ==
    IF key.privateKey.set THEN Imported("err", key)
    ELSE IF HexToBytes(hex).st # "ok" THEN Imported("err", key)
    ELSE Imported("ok", [key EXCEPT !.privateKey = Half(HexToBytes(hex).b)])

\* ed25519_key.go 206-243, the branch of compressed = false, which is what
\* every caller in package wallet passes
Secp256k1PublicFromHex(key, hex) ==
    LET hexBytes == HexToBytes(hex)
    IN  IF hexBytes.st # "ok" THEN Imported("err", key)
        ELSE IF Len(hexBytes.b) # 65 THEN Imported("err", key)
        ELSE IF hexBytes.b[1] # 4 THEN Imported("err", key)
        ELSE Imported("ok", [key EXCEPT !.publicKey = Half(SubSeq(hexBytes.b, 2, 65))])

\* ed25519_key.go 183-204: line 194 dereferences key.publicKey, line 197
\* replaces key.privateKey before line 198 parses the bytes
Secp256k1PrivateFromHex(key, hex) ==
    LET hexBytes == HexToBytes(hex)
    IN  IF hexBytes.st # "ok" THEN Imported("err", key)
        ELSE IF Len(hexBytes.b) # 32 THEN Imported("err", key)
        ELSE IF ~key.publicKey.set THEN Imported("panic", key)
        ELSE IF ~IsSecpPoint(key.publicKey.b)
             THEN Imported("err", [key EXCEPT !.privateKey = Half(<<>>)])
        ELSE Imported("ok", [key EXCEPT !.privateKey = Half(key.publicKey.b \o hexBytes.b)])

\* mldsa87_key.go 77-94: line 82 sets key.publicKey before the hex is parsed
MLDSA87PublicFromHex(key, hex) ==
    IF key.publicKey.set THEN Imported("err", key)
    ELSE IF HexToBytes(hex).st # "ok"
         THEN Imported("err", [key EXCEPT !.publicKey = Half(<<>>)])
    ELSE IF Len(HexToBytes(hex).b) # MLDSAPublicKeySize
         THEN Imported("err", [key EXCEPT !.publicKey = Half(<<>>)])
    ELSE Imported("ok", [key EXCEPT !.publicKey = Half(HexToBytes(hex).b)])

\* mldsa87_key.go 96-113: line 101 sets key.privateKey before the hex is parsed
MLDSA87PrivateFromHex(key, hex) ==
    IF key.privateKey.set THEN Imported("err", key)
    ELSE IF HexToBytes(hex).st # "ok"
         THEN Imported("err", [key EXCEPT !.privateKey = Half(<<>>)])
    ELSE IF Len(HexToBytes(hex).b) # MLDSAPrivateKeySize
         THEN Imported("err", [key EXCEPT !.privateKey = Half(<<>>)])
    ELSE Imported("ok", [key EXCEPT !.privateKey = Half(HexToBytes(hex).b)])

\* G1Affine.SetBytes on the first sizeFp bytes of buf, as lines 46 and 90
\* call it: the flag bits 000 announce an uncompressed point, for which
\* sizeFp bytes are too few; a compressed X that is no point of the curve
\* is stored before the error is returned
SetPoint(a, buf) ==
    IF buf[1] \div 32 = 0 THEN [st |-> "err", a |-> a]
    ELSE IF IsBlsPoint(SubSeq(buf, 1, sizeFp))
         THEN [st |-> "ok", a |-> SubSeq(buf, 1, sizeFp)]
    ELSE [st |-> "err", a |-> [i \in 1..sizeFp |-> IF i = 1 THEN buf[1] % 32 ELSE buf[i]]]

\* bls12377_key.go 41-51 and 207-216: line 213 drops what SetBytes returns
BLS12377PublicFromHex(key, hex) ==
    LET hexBytes == HexToBytes(hex)
    IN  IF hexBytes.st # "ok" THEN Imported("err", key)
        ELSE IF Len(hexBytes.b) < sizePublicKey THEN Imported("ok", key)
        ELSE Imported("ok", [key EXCEPT !.publicKey =
                 PointHalf(SetPoint(key.publicKey.b, hexBytes.b).a)])

\* what PrivateKey.SetBytes leaves when the point is refused: the scalar
\* as it was, the point as SetPoint left it
PointRefused(key, a) ==
    IF a = <<>> \/ a = SubSeq(key.privateKey.b \o Zeros(sizePublicKey), 1, sizePublicKey)
    THEN Imported("err", key)
    ELSE Imported("err", [key EXCEPT !.privateKey =
             [set |-> key.privateKey.set,
              b |-> a \o (IF key.privateKey.b = <<>> THEN Zeros(sizeFr)
                          ELSE SubSeq(key.privateKey.b, sizePublicKey + 1, sizePrivateKey))]])

\* bls12377_key.go 85-97 and 218-230; the private half holds the point and
\* the scalar, and counts as set when the scalar is not zero (line 200)
BLS12377PrivateFromHex(key, hex) ==
    LET hexBytes == HexToBytes(hex)
        a == IF key.privateKey.b = <<>> THEN <<>>
             ELSE SubSeq(key.privateKey.b, 1, sizePublicKey)
    IN  IF hexBytes.st # "ok" THEN Imported("err", key)
        ELSE IF Len(hexBytes.b) < sizePrivateKey THEN Imported("err", key)
        ELSE IF SetPoint(a, hexBytes.b).st # "ok"
             THEN PointRefused(key, SetPoint(a, hexBytes.b).a)
        ELSE Imported("ok", [key EXCEPT !.privateKey =
                 [set |-> SubSeq(hexBytes.b, sizePublicKey + 1, sizePrivateKey) # Zeros(sizeFr),
                  b |-> SubSeq(hexBytes.b, 1, sizePrivateKey)]])

\* ULKey.GeneratePublicKeyFromHex(false, hex)
GeneratePublicKeyFromHex(key, hex) ==
    CASE key.type = KeyTypeSecp256k1 -> Secp256k1PublicFromHex(key, hex)
      [] key.type = KeyTypeMlDSA87   -> MLDSA87PublicFromHex(key, hex)
      [] key.type = KeyTypeED25519   -> ED25519PublicFromHex(key, hex)
      [] OTHER                       -> BLS12377PublicFromHex(key, hex)

\* ULKey.GeneratePrivateKeyFromHex(hex)
GeneratePrivateKeyFromHex(key, hex) ==
    CASE key.type = KeyTypeSecp256k1 -> Secp256k1PrivateFromHex(key, hex)
      [] key.type = KeyTypeMlDSA87   -> MLDSA87PrivateFromHex(key, hex)
      [] key.type = KeyTypeED25519   -> ED25519PrivateFromHex(key, hex)
      [] OTHER                       -> BLS12377PrivateFromHex(key, hex)

\* ULKey.GetPublicKeyHex(false): "" while the public half is unset; the
\* secp256k1 key writes 0x04, X and Y
GetPublicKeyHex(key) ==
    IF ~key.publicKey.set THEN <<>>
    ELSE IF key.type = KeyTypeSecp256k1 THEN UpperHex(<<4>> \o key.publicKey.b)
    ELSE UpperHex(key.publicKey.b)

\* ULKey.GetPrivateKeyHex: "" while the private half is unset; the
\* secp256k1 key returns the last 32 of its 96 bytes
GetPrivateKeyHex(key) ==
    IF ~key.privateKey.set THEN <<>>
    ELSE IF key.type = KeyTypeSecp256k1
         THEN UpperHex(SubSeq(key.privateKey.b \o Zeros(96), 65, 96))
    ELSE UpperHex(key.privateKey.b)

(***************************************************************************)
(* Package wallet (src/unnamed/part_000).  A result is [st, wallet, log]:  *)
(* log lists the imports the path ran on its key, each with what it        *)
(* returned and whether the key's public half was set when it was called.  *)
(***************************************************************************)
NoKey == NewKey(-1)
NoAddress == [h |-> "", k |-> "", v |-> <<>>]
\* UL_Wallet{}
EmptyWallet == [Address |-> NoAddress, key |-> NoKey]

\* an address read from a file or a JSON document
AddressString(str) == IF str = <<>> THEN NoAddress ELSE [h |-> "", k |-> "string", v |-> str]

\* lines 114-118: hex.EncodeToString of the SHA-256 of the lower-cased hex
ParseAddress(publicKeyHex) ==
    [h |-> "hex", k |-> "lower", v |-> [h |-> "sha256", k |-> "sum", v |-> ToLower(publicKeyHex)]]

LogEntry(op, before, imported) ==
    [op |-> op, st |-> imported.st, publicSet |-> before.publicKey.set]

\* both imports were called: p is what the public one returned, q the private one
BothImported(key, p, q) ==
    [st |-> q.st, key |-> q.key,
     log |-> <<LogEntry("public", key, p), LogEntry("private", p.key, q)>>]

\* the private import is called whatever the public import returned
AfterPublicUnchecked(key, p, privateKeyHex) ==
    BothImported(key, p, GeneratePrivateKeyFromHex(p.key, privateKeyHex))

\* lines 75-83, 95-102, 236-243: the error of the public import is returned
\* before the private import is called
AfterPublic(key, p, privateKeyHex) ==
    IF p.st # "ok" THEN [st |-> p.st, key |-> p.key, log |-> <<LogEntry("public", key, p)>>]
    ELSE BothImported(key, p, GeneratePrivateKeyFromHex(p.key, privateKeyHex))

ImportBoth(key, publicKeyHex, privateKeyHex) ==
    AfterPublic(key, GeneratePublicKeyFromHex(key, publicKeyHex), privateKeyHex)

\* lines 262-264
ImportPublic(key, publicKeyHex) ==
    [st |-> GeneratePublicKeyFromHex(key, publicKeyHex).st,
     key |-> GeneratePublicKeyFromHex(key, publicKeyHex).key,
     log |-> <<LogEntry("public", key, GeneratePublicKeyFromHex(key, publicKeyHex))>>]

NoWallet(st, log) == [st |-> st, wallet |-> EmptyWallet, log |-> log]

\* lines 104-111: the address is derived from the imported public key
Derived(r) ==
    IF r.st # "ok" THEN NoWallet(r.st, r.log)
    ELSE [st |-> "ok", log |-> r.log,
          wallet |-> [Address |-> ParseAddress(GetPublicKeyHex(r.key)), key |-> r.key]]

\* lines 58-63, 246-249, 267-270: the address is the stored one
Stored(r, address) ==
    IF r.st # "ok" THEN NoWallet(r.st, r.log)
    ELSE [st |-> "ok", log |-> r.log,
          wallet |-> [Address |-> AddressString(address), key |-> r.key]]

\* lines 88-112
GetWalletFromHex(publicKeyHex, privateKeyHex, keyType) ==
    IF GetKeyByType(keyType).st # "ok" THEN NoWallet("err", <<>>)
    ELSE Derived(ImportBoth(GetKeyByType(keyType).key, publicKeyHex, privateKeyHex))

\* lines 51-86; wd is the parsed document, or unparsable
FromJson(wd) ==
    IF ~wd.parsed THEN NoWallet("err", <<>>)
    ELSE IF GetKeyByType(wd.KeyType).st # "ok" THEN NoWallet("err", <<>>)
    ELSE Stored(ImportBoth(GetKeyByType(wd.KeyType).key, wd.PublicKeyHex, wd.PrivateKeyHex),
                wd.Address)

\* bip39.IsMnemonicValid: of the valid phrases the model holds "abandon"
IsMnemonicValid(mnemonic) == mnemonic = <<97, 98, 97, 110, 100, 111, 110>>

\* lines 121-149: the key pair is derived from the seed of the mnemonic,
\* nothing is imported; the bytes of the pair are not modelled
GenerateFromMnemonic(mnemonic, keyType) ==
    IF ~IsMnemonicValid(mnemonic) THEN NoWallet("err", <<>>)
    ELSE IF GetKeyByType(keyType).st # "ok" THEN NoWallet("err", <<>>)
    ELSE Derived([st |-> "ok", log |-> <<>>,
                  key |-> [type |-> keyType, publicKey |-> Half(mnemonic),
                           privateKey |-> Half(mnemonic)]])

\* lines 209-272; data is the parsed file, or unreadable
LoadFromFile(data) ==
    IF ~data.parsed THEN NoWallet("err", <<>>)
    ELSE IF data.Mnemonic # <<>> THEN GenerateFromMnemonic(data.Mnemonic, data.KeyType)
    ELSE IF GetKeyByType(data.KeyType).st # "ok" THEN NoWallet("err", <<>>)
    ELSE IF data.PrivateKeyHex # <<>>
         THEN Stored(ImportBoth(GetKeyByType(data.KeyType).key, data.PublicKeyHex,
                                data.PrivateKeyHex), data.Address)
    ELSE Stored(ImportPublic(GetKeyByType(data.KeyType).key, data.PublicKeyHex), data.Address)

(***************************************************************************)
(* The values, buffers and payloads the operations are called with.        *)
(***************************************************************************)
Bool(b) == [k |-> "bool", v |-> b]
Int32(n) == [k |-> "int32", v |-> n]
Int64(q) == [k |-> "int64", v |-> q]
Str(s) == [k |-> "string", v |-> s]
BytesOf(s) == [k |-> "bytes", v |-> s]
Float32(w) == [k |-> "float32", v |-> w]
Float64(q) == [k |-> "float64", v |-> q]
Array(s) == [k |-> "array", v |-> s]
Map(f) == [k |-> "map", v |-> f]

\* kinds the type switch of Encode has no case for
PlainInt == [k |-> "int", v |-> 1]
Unsupported == {PlainInt, [k |-> "uint32", v |-> 1], [k |-> "map[string]int", v |-> <<>>]}

SupportedKinds ==
    {"null", "bool", "int32", "int64", "string", "bytes", "float32", "float64", "array", "map"}

\* "a", "ab", "b"
Keys == {<<97>>, <<97, 98>>, <<98>>}

\* 1.0 as float32 is 0x3F800000, 1.0 as float64 is 0x3FF0000000000000
Scalars ==
    {Null, Bool(TRUE), Bool(FALSE), Int32(5), Int32(-1), Int32(1), Int32(2),
     Int64(<<0, 5>>), Int64(<<-1, -2>>),
     Str(<<>>), Str(<<97>>), BytesOf(<<>>), BytesOf(<<7, 0>>),
     Float32(1065353216), Float64(<<1072693248, 0>>)}

SeqsUpTo(S, n) == UNION {[1..m -> S] : m \in 0..n}
MapsUpTo(Ks, S, n) == UNION {[K -> S] : K \in {K \in SUBSET Ks : Cardinality(K) <= n}}

Elems0 == {Null, Int32(5), Str(<<97>>), PlainInt}

Containers1 ==
    {Array(s) : s \in SeqsUpTo(Elems0, MaxElems)} \cup {Map(f) : f \in MapsUpTo(Keys, Elems0, MaxKeys)}

Elems1 ==
    {Int32(5), Array(<<>>), Array(<<Int32(5)>>), Map(<<>>),
     Map(<<97>> :> Int32(5)), Array(<<PlainInt>>)}

Containers2 ==
    {Array(s) : s \in SeqsUpTo(Elems1, MaxElems)} \cup {Map(f) : f \in MapsUpTo({<<97>>, <<98>>}, Elems1, MaxKeys)}

Singles ==
    {Array(<<x>>) : x \in Scalars \cup Unsupported} \cup
    {Map(<<98>> :> x) : x \in Scalars \cup Unsupported} \cup
    {Map(<<98>> :> Int32(1) @@ <<97>> :> Int32(2))}

Values == Scalars \cup Unsupported \cup Containers1 \cup Containers2 \cup Singles

\* one seed for every order in which a map of MaxKeys entries can be ranged over
RECURSIVE Factorial(_)
Factorial(n) == IF n <= 1 THEN 1 ELSE n * Factorial(n - 1)
Seeds == 0..(Factorial(MaxKeys) - 1)

\* bytes a buffer is overwritten or extended with
TamperBytes == {0, 1, 4, 6, 7, 10, 255}

\* a payload of n bytes, none of them zero
PayloadOfLen(n) == [i \in 1..n |-> (i % 7) + 1]

ModSizes == {4, 6}
\* exact mode is also called with a field narrower than the widest chunk
ExactModSizes == {3, 4, 6}
PayloadLens == {0, 1, 16, 17, 1024, 1025, 1040}
KeyTypes == {KeyTypeSecp256k1, KeyTypeMlDSA87, KeyTypeED25519, KeyTypeBLS12377}
\* the four key types and a value that names none of them
AnyKeyTypes == KeyTypes \cup {KeyTypeBLS12377 + 1}

\* buffers a peer can send that no Encode call produces
Crafted ==
    {<<TypeInt32, 0, 0, 0, 4, 0, 0, 0, 5, 0, 0, 0, 0, 0, 0, 0, 0>>,
     <<TypeNull, 0, 0, 0, 1, 9>>,
     <<TypeBool, 0, 0, 0, 1>>,
     <<TypeMap, 0, 0, 0, 1, 0, 0, 0, 5, TypeInt32, 0, 0, 0, 4>>,
     <<TypeMap, 0, 0, 0, 1, 0, 0, 0, 14, TypeInt32, 0, 0, 0, 4, 0, 0, 0, 5, TypeNull, 0, 0, 0, 0>>,
     <<TypeArray, 0, 0, 0, 2, 0, 0, 0, 14, TypeArray, 0, 0, 0, 0, 0, 0, 0, 0, TypeNull, 0, 0, 0, 0>>}

\* the goroutines that call GenerateTransaction on one session
Procs == {1, 2}

PayloadTypes ==
    {"DEPLOY_SMART_CONTRACT", "UPGRADE_SMART_CONTRACT", "CREATE_WALLET", "ALTER_WALLET",
     "DATA", "INVOKE_SMART_CONTRACT", "create_wallet", ""}

\* the payloads and clock readings of the goroutines
LenFor(p) == 18 - p
TimeFor(p) == 1700000000 + p

Given(payloadType, n) ==
    [EmptyInput EXCEPT !.BlockchainId = "chain", !.To = "bob", !.From = "carol",
                       !.Payload = PayloadOfLen(n), !.PayloadType = payloadType]

\* NewUL_TransactionSession: the suggestor is the node's id; the wallet may
\* have been imported without its private key
Sessions ==
    {[st |-> "session", suggestor |-> "node",
      wallet |-> [Address |-> "alice", keyType |-> keyType, privateKey |-> privateKey]] :
        keyType \in {KeyTypeSecp256k1, KeyTypeBLS12377}, privateKey \in BOOLEAN}

\* what the node answers; status 0 stands for a transport error
Responses ==
    {[status |-> 0, body |-> ""], [status |-> 500, body |-> "garbage"],
     [status |-> 200, body |-> "transaction"], [status |-> 201, body |-> "transaction"],
     [status |-> 200, body |-> "empty"], [status |-> 200, body |-> "garbage"]}

NotReturned == Returned("none", "", EmptyTransaction, NilBytes, EmptyInput)

\* a call that has not started
NewCall ==
    [op |-> "GenerateTransaction", at |-> "new", given |-> EmptyInput, now |-> 0,
     resp |-> [status |-> 0, body |-> ""], input |-> EmptyInput, hasher |-> 0,
     c |-> EmptyCommitment, written |-> 0, toSign |-> NilBytes, out |-> NotReturned]

NotRun == [st |-> "none"]
NoSession == [st |-> "none"]

\* what an earlier operation of the caller left in a hash.Hash instance
Used(hasher, how) ==
    CASE how = "fresh" -> hasher
      [] how = "written" -> Write(hasher, Data(<<1>>))
      [] how = "summed" -> AfterSum(Write(hasher, Data(<<1>>)))
NoWire == [arr |-> <<>>, len |-> 0]

\* hex strings handed to the imports: "invalid", "0g", "abc", "00", ""
NotHex == <<105, 110, 118, 97, 108, 105, 100>>
BadDigit == <<48, 103>>
OddHex == <<97, 98, 99>>
ShortHex == <<48, 48>>
\* the keys of the wallet tests, in lower case as the tests write them
SecpPublicHex == EncodeToString(<<4>> \o TestPoint)
SecpPrivateHex ==
    EncodeToString(<<99, 246, 6, 47, 32, 52, 188, 188, 192, 139, 174, 46, 170, 190, 232, 221,
                     120, 13, 53, 44, 215, 108, 89, 93, 206, 58, 99, 28, 232, 135, 121, 52>>)
\* 65 bytes with the prefix 0x04 that are no point of the curve
OffCurveHex == EncodeToString(<<4>> \o [i \in 1..64 |-> 1])
MLDSAPublicHex == EncodeToString([i \in 1..MLDSAPublicKeySize |-> i % 256])
MLDSAPrivateHex == EncodeToString([i \in 1..MLDSAPrivateKeySize |-> (i + 7) % 256])
BlsPublicHex == EncodeToString(BlsPoint)
BlsPrivateHex == EncodeToString(BlsPoint \o [i \in 1..sizeFr |-> i])
\* the same key with one more byte behind it
BlsLongHex == EncodeToString(BlsPoint \o [i \in 1..sizeFr |-> i] \o <<171>>)

PublicHexes ==
    {NotHex, BadDigit, OddHex, ShortHex, <<>>, SecpPublicHex, ToUpper(SecpPublicHex), OffCurveHex,
     MLDSAPublicHex, BlsPublicHex, ToUpper(BlsPublicHex)}
PrivateHexes ==
    {NotHex, BadDigit, ShortHex, <<>>, SecpPrivateHex, ToUpper(SecpPrivateHex), MLDSAPrivateHex,
     BlsPrivateHex, BlsLongHex}

\* the defined transaction types, TX_DATA to CONVERT_TOKEN
TxTypes ==
    {"TX_DATA", "TX_CREATE_WALLET", "TX_ALTER_WALLET", "DEPLOY_SMART_CONTRACT",
     "INVOKE_SMART_CONTRACT", "UPGRADE_SMART_CONTRACT", "ROLLBACK_SMART_CONTRACT",
     "CREATE_TOKEN", "TRANSFER_TOKEN", "APPROVE_TOKEN", "MINT_TOKEN", "BURN_TOKEN",
     "MINT_NFT", "TRANSFER_NFT", "APPROVE_NFT", "SET_APPROVAL_FOR_ALL",
     "TRANSFER_MULTI_TOKEN", "MINT_MULTI_TOKEN", "CONVERT_TOKEN"}

\* a name with only its first letter in upper case
Capitalized(str) == [i \in 1..Len(str) |-> IF i = 1 THEN str[i] ELSE ToLower(str)[i]]

\* the strings handed to ParseTransactionType: the name of every type in
\* upper, lower and mixed case, and "", "TX_DATA", "DATA ", "INVALID_TX_TYPE"
TypeNames ==
    {Chars(String(tt)) : tt \in TxTypes}
    \cup {ToLower(Chars(String(tt))) : tt \in TxTypes}
    \cup {Capitalized(Chars(String(tt))) : tt \in TxTypes}
    \cup {<<>>, <<84, 88, 95>> \o Chars("DATA"), Chars("DATA") \o <<32>>,
          <<73, 78, 86, 65, 76, 73, 68, 95, 84, 88, 95, 84, 89, 80, 69>>}

\* the strings a caller that holds one key object tries on it
HexesFor(keyType) ==
    CASE keyType = KeyTypeSecp256k1 -> {NotHex, SecpPublicHex, OffCurveHex, SecpPrivateHex}
      [] keyType = KeyTypeMlDSA87   -> {NotHex, ShortHex, MLDSAPublicHex, MLDSAPrivateHex}
      [] keyType = KeyTypeED25519   -> {NotHex, BadDigit, SecpPrivateHex, <<>>}
      [] OTHER                      -> {NotHex, ShortHex, BlsPublicHex, BlsPrivateHex}

\* wallet documents: unparsable, or with a key type, a stored address
\* ("alice") and the strings of the two halves
Documents ==
    {[parsed |-> FALSE, KeyType |-> 0, Address |-> <<>>, Mnemonic |-> <<>>,
      PublicKeyHex |-> <<>>, PrivateKeyHex |-> <<>>]}
    \cup {[parsed |-> TRUE, KeyType |-> keyType, Address |-> <<97, 108, 105, 99, 101>>,
            Mnemonic |-> mnemonic, PublicKeyHex |-> pub, PrivateKeyHex |-> priv] :
              keyType \in {KeyTypeSecp256k1, KeyTypeED25519, KeyTypeBLS12377, KeyTypeBLS12377 + 1},
              mnemonic \in {<<>>},
              pub \in {NotHex, ShortHex, SecpPublicHex, BlsPublicHex},
              priv \in {NotHex, <<>>, SecpPrivateHex, BlsPrivateHex}}
    \cup {[parsed |-> TRUE, KeyType |-> keyType, Address |-> <<97, 108, 105, 99, 101>>,
            Mnemonic |-> mnemonic, PublicKeyHex |-> SecpPublicHex, PrivateKeyHex |-> <<>>] :
              keyType \in {KeyTypeSecp256k1, KeyTypeBLS12377 + 1},
              mnemonic \in {<<97, 98, 97, 110, 100, 111, 110>>, <<120>>}}

(***************************************************************************)
(* The state machine: a caller encodes a value, the buffer may be altered  *)
(* on its way, a caller decodes it; callers build Merkle commitments.      *)
(***************************************************************************)
Init ==
    /\ pc = "idle"
    /\ value = NoValue
    /\ encoded = NotRun
    /\ wire = NoWire
    /\ tampered = "no"
    /\ decoded = NotRun
    /\ merkle = NotRun
    /\ commitment = NotRun
    /\ session = NoSession
    /\ hashers = <<>>
    /\ calls = <<>>

\* b, err := Encode(v); the runtime ranges over maps in the order seed gives
CallEncode(v, seed) ==
    /\ pc = "idle"
    /\ value' = v
    /\ encoded' = Encode(v, seed)
    /\ wire' = [arr |-> encoded'.b, len |-> Len(encoded'.b)]
    /\ pc' = "encoded"
    /\ UNCHANGED <<tampered, decoded, merkle, commitment, session, hashers, calls>>

\* a buffer arrives from a peer
Receive(b) ==
    /\ pc = "idle"
    /\ wire' = [arr |-> b, len |-> Len(b)]
    /\ tampered' = "crafted"
    /\ pc' = "received"
    /\ UNCHANGED <<value, encoded, decoded, merkle, commitment, session, hashers, calls>>

\* one byte of the buffer is overwritten
SetByte(i, b) ==
    /\ pc = "encoded" /\ encoded.st = "ok" /\ tampered = "no"
    /\ i \in 1..wire.len
    /\ wire.arr[i] # b
    /\ wire' = [wire EXCEPT !.arr[i] = b]
    /\ tampered' = "set"
    /\ UNCHANGED <<pc, value, encoded, decoded, merkle, commitment, session, hashers, calls>>

\* the caller passes data[:n]: shorter, same backing array
Reslice(n) ==
    /\ pc = "encoded" /\ encoded.st = "ok" /\ tampered = "no"
    /\ n \in 0..(wire.len - 1)
    /\ wire' = [wire EXCEPT !.len = n]
    /\ tampered' = "reslice"
    /\ UNCHANGED <<pc, value, encoded, decoded, merkle, commitment, session, hashers, calls>>

\* the caller passes a copy of the first n bytes
Truncate(n) ==
    /\ pc = "encoded" /\ encoded.st = "ok" /\ tampered = "no"
    /\ n \in 0..(wire.len - 1)
    /\ wire' = [arr |-> SubSeq(wire.arr, 1, n), len |-> n]
    /\ tampered' = "truncate"
    /\ UNCHANGED <<pc, value, encoded, decoded, merkle, commitment, session, hashers, calls>>

\* the caller passes the buffer with one more byte behind it
Extend(b) ==
    /\ pc = "encoded" /\ encoded.st = "ok" /\ tampered = "no"
    /\ wire' = [arr |-> Append(wire.arr, b), len |-> wire.len + 1]
    /\ tampered' = "extend"
    /\ UNCHANGED <<pc, value, encoded, decoded, merkle, commitment, session, hashers, calls>>

\* v, err := Decode(wire)
CallDecode ==
    /\ \/ pc = "encoded" /\ encoded.st = "ok"
       \/ pc = "received"
    /\ decoded' = Decode(wire)
    /\ pc' = "decoded"
    /\ UNCHANGED <<value, encoded, wire, tampered, merkle, commitment, session, hashers, calls>>

\* the positions (1-based) of the caller's buffer that the decoded value
\* still refers to: line 201 returns data[5:], a slice of the input, and
\* lines 238 and 257 store what the recursive calls returned; a string is
\* copied by its conversion (line 196), a number is a value
RECURSIVE Shared(_, _)
Shared(data, base) ==
    LET r == Decode(data)
    IN  IF r.st # "ok" THEN {}
        ELSE IF data.arr[1] = TypeBytes THEN (base + 6)..(base + data.len)
        ELSE UNION {Shared(Slice(data, r.reads[j].off, r.reads[j].off + r.reads[j].size),
                           base + r.reads[j].off) : j \in DOMAIN r.reads}

\* the caller reuses its buffer after Decode returned: it overwrites the
\* byte at position i; what the decoded value shows is re-read where the
\* value is a slice of the buffer and is as it was everywhere else
WriteInput(i) ==
    /\ pc = "decoded" /\ decoded.st = "ok" /\ tampered = "no"
    /\ i \in 1..wire.len
    /\ wire' = [wire EXCEPT !.arr[i] = (@ + 1) % 256]
    /\ decoded' = IF i \in Shared(wire, 0) THEN Decode(wire') ELSE decoded
    /\ pc' = "reused"
    /\ UNCHANGED <<value, encoded, tampered, merkle, commitment, session, hashers, calls>>

(***************************************************************************)
(* Wallets are built from strings; a caller that holds a key object        *)
(* imports its halves, one call after the other.                           *)
(***************************************************************************)
CallGetWalletFromHex(publicKeyHex, privateKeyHex, keyType) ==
    /\ pc = "idle"
    /\ session' = [st |-> "wallet", op |-> "GetWalletFromHex", KeyType |-> keyType,
                   PublicKeyHex |-> publicKeyHex, PrivateKeyHex |-> privateKeyHex,
                   out |-> GetWalletFromHex(publicKeyHex, privateKeyHex, keyType)]
    /\ pc' = "wallet"
    /\ UNCHANGED <<codecVars, hashers, calls>>

CallFromJson(wd) ==
    /\ pc = "idle"
    /\ session' = [st |-> "wallet", op |-> "FromJson", KeyType |-> wd.KeyType,
                   PublicKeyHex |-> wd.PublicKeyHex, PrivateKeyHex |-> wd.PrivateKeyHex,
                   out |-> FromJson(wd)]
    /\ pc' = "wallet"
    /\ UNCHANGED <<codecVars, hashers, calls>>

CallLoadFromFile(data) ==
    /\ pc = "idle"
    /\ session' = [st |-> "wallet", op |-> "LoadFromFile", KeyType |-> data.KeyType,
                   PublicKeyHex |-> data.PublicKeyHex, PrivateKeyHex |-> data.PrivateKeyHex,
                   out |-> LoadFromFile(data)]
    /\ pc' = "wallet"
    /\ UNCHANGED <<codecVars, hashers, calls>>

\* tt, err := ParseTransactionType(str)
CallParseTransactionType(str) ==
    /\ pc = "idle"
    /\ session' = [st |-> "parsed", str |-> str, out |-> ParseTransactionType(str)]
    /\ pc' = "parsed"
    /\ UNCHANGED <<codecVars, hashers, calls>>

\* key := crypto.GetKeyByType(keyType, hasher)
MakeKey(keyType) ==
    /\ pc = "idle"
    /\ session' = [st |-> "key", key |-> NewKey(keyType)]
    /\ calls' = <<>>
    /\ pc' = "key"
    /\ UNCHANGED <<codecVars, hashers>>

\* the import ran on the caller's key object: the object is as the import
\* left it; a panic ends the caller
Tried(op, hex, imported) ==
    /\ session' = [session EXCEPT !.key = imported.key]
    /\ calls' = Append(calls, [op |-> op, hex |-> hex, st |-> imported.st,
                               before |-> session.key])
    /\ pc' = IF imported.st = "panic" THEN "panicked" ELSE "key"

CallGeneratePublicKeyFromHex(hex) ==
    /\ pc = "key" /\ Len(calls) < MaxImports
    /\ hex \in HexesFor(session.key.type)
    /\ Tried("GeneratePublicKeyFromHex", hex, GeneratePublicKeyFromHex(session.key, hex))
    /\ UNCHANGED <<codecVars, hashers>>

CallGeneratePrivateKeyFromHex(hex) ==
    /\ pc = "key" /\ Len(calls) < MaxImports
    /\ hex \in HexesFor(session.key.type)
    /\ Tried("GeneratePrivateKeyFromHex", hex, GeneratePrivateKeyFromHex(session.key, hex))
    /\ UNCHANGED <<codecVars, hashers>>

CallHardBound(n, modulusSizeBytes, chunkSize, depth, proofIndex) ==
    /\ pc = "idle"
    /\ merkle' = [op |-> "HardBound", payload |-> PayloadOfLen(n), modulus |-> modulusSizeBytes,
                  chunkSize |-> chunkSize, depth |-> depth, proofIndex |-> proofIndex,
                  out |-> GenerateMerkleTreeWithHardBound(PayloadOfLen(n), modulusSizeBytes,
                              chunkSize, depth, "mimc_bn254", proofIndex)]
    /\ pc' = "built"
    /\ UNCHANGED <<value, encoded, wire, tampered, decoded, commitment, session, hashers, calls>>

CallGenerateMerkleTree(n, modulusSizeBytes, chunkSize, proofIndex) ==
    /\ pc = "idle"
    /\ merkle' = [op |-> "Exact", payload |-> PayloadOfLen(n), modulus |-> modulusSizeBytes,
                  chunkSize |-> chunkSize, depth |-> 0, proofIndex |-> proofIndex,
                  out |-> GenerateMerkleTree(PayloadOfLen(n), modulusSizeBytes,
                              chunkSize, "mimc_bn254", proofIndex)]
    /\ pc' = "built"
    /\ UNCHANGED <<value, encoded, wire, tampered, decoded, commitment, session, hashers, calls>>

\* a caller obtains a hash.Hash instance and may have used it before
MakeHasher(keyType, how) ==
    /\ pc = "idle"
    /\ hashers' = <<Used(NewHasher(GetHasherByType(keyType)), how)>>
    /\ session' = [st |-> "caller", keyType |-> keyType, hasher |-> how]
    /\ pc' = "hasher"
    /\ UNCHANGED <<codecVars, calls>>

\* what a run of the two operations leaves: its record and the instance
Ran(t, own, out, sum, hasher) ==
    [call |-> [op |-> "CommitAndHash", t |-> t, own |-> own, out |-> out, sum |-> sum],
     hasher |-> hasher]

\* transaction.go lines 396-410, run on the instance mine
HashedWith(t, own, out, hashed) == Ran(t, own, out, hashed.sum, hashed.hasher)

\* the two operations in a row, given what the first returned
CommitAndHash(t, own, hasher, out) ==
    IF out.st # "ok" THEN Ran(t, own, out, NilBytes, hasher)
    ELSE HashedWith(t, own, out,
             HashSignatureCommitment(IF own THEN AfterBuild(hasher, out.st, out.c.PayloadRoot)
                                            ELSE hasher, out.c))

\* the run is recorded and the instance keeps what the run left in it
Record(ran) ==
    /\ calls' = Append(calls, ran.call)
    /\ hashers' = <<ran.hasher>>

\* the transaction a caller commits to
TransactionOf(n, keyType, timestamp) ==
    [BlockchainId |-> "chain", From |-> "alice", To |-> "bob", Suggestor |-> "node",
     KeyType |-> keyType, Payload |-> PayloadOfLen(n), SenderTimestamp |-> timestamp]

\* the caller runs GetSignatureCommitment and then HashSignatureCommitment
\* with its instance; with own = FALSE the commitment comes from a call that
\* used another instance
CallCommitAndHash(n, timestamp, own) ==
    /\ pc = "hasher"
    /\ Len(calls) < MaxRuns
    /\ Record(CommitAndHash(TransactionOf(n, session.keyType, timestamp), own, hashers[1],
                            GetSignatureCommitment(TransactionOf(n, session.keyType, timestamp),
                                                   hashers[1].alg)))
    /\ UNCHANGED <<pc, codecVars, session>>

(***************************************************************************)
(* Goroutines call GenerateTransaction on one session; each statement that *)
(* touches the hasher is a step of its own.                                *)
(***************************************************************************)
\* one caller runs GenerateTransaction from start to end
CallGenerateTransaction(s, given, now, resp) ==
    /\ pc = "idle"
    /\ session' = s
    /\ calls' = <<[NewCall EXCEPT !.at = "done", !.given = given, !.now = now, !.resp = resp,
                                  !.out = GenerateTransaction(s, given, now, resp)]>>
    /\ pc' = "returned"
    /\ UNCHANGED <<codecVars, hashers>>

\* a session shared by the goroutines
NewSession(s) ==
    /\ pc = "idle"
    /\ session' = s
    /\ calls' = [p \in Procs |-> NewCall]
    /\ hashers' = <<>>
    /\ pc' = "session"
    /\ UNCHANGED codecVars

\* lines 107-117
Begin(p, given, now) ==
    /\ pc = "session" /\ calls[p].at = "new"
    /\ LET input == Prepare(session, given, now)
           id == HasherFor(hashers)
       IN  /\ hashers' = IF id > Len(hashers)
                         THEN Append(hashers, NewHasher(GetHasherByType(input.KeyType)))
                         ELSE hashers
           /\ calls' = [calls EXCEPT ![p] = [@ EXCEPT !.at = "commit", !.given = given,
                                                      !.now = now, !.input = input,
                                                      !.hasher = id]]
    /\ UNCHANGED <<pc, codecVars, session>>

\* lines 124-129: the unbound commitment is what will be signed
CommitUnbound(call, hasher, u) ==
    [hasher |-> AfterBuild(hasher, u.st, u.root),
     call |-> IF u.st # "ok"
              THEN [call EXCEPT !.at = "done",
                                !.out = Returned(u.st, u.err, EmptyTransaction,
                                                 NilBytes, EmptyInput)]
              ELSE [call EXCEPT !.at = "sign", !.toSign = u.root,
                                !.input.PayloadRoot = BytesToHex(u.root)]]

\* lines 131-134: the bound commitment is still to be hashed
CommitBound(call, hasher, b) ==
    [hasher |-> AfterBuild(hasher, b.st, b.c.PayloadRoot),
     call |-> IF b.st # "ok"
              THEN [call EXCEPT !.at = "done",
                                !.out = Returned(b.st, b.err, EmptyTransaction,
                                                 NilBytes, EmptyInput)]
              ELSE [call EXCEPT !.at = "hash", !.c = b.c]]

\* goroutine p moves on; its hasher keeps what the builder left in it
Committed(p, step) ==
    /\ hashers' = [hashers EXCEPT ![calls[p].hasher] = step.hasher]
    /\ calls' = [calls EXCEPT ![p] = step.call]

\* lines 122-134: the Merkle commitment of the branch is built
Commit(p) ==
    /\ pc = "session" /\ calls[p].at = "commit"
    /\ Committed(p, IF Unbound(calls[p].input.PayloadType)
                    THEN CommitUnbound(calls[p], hashers[calls[p].hasher],
                             GetUnboundCommitment(calls[p].input, hashers[calls[p].hasher].alg))
                    ELSE CommitBound(calls[p], hashers[calls[p].hasher],
                             GetSignatureCommitment(calls[p].input, hashers[calls[p].hasher].alg)))
    /\ UNCHANGED <<pc, codecVars, session>>

\* transaction.go line 397
HashReset(p) ==
    /\ pc = "session" /\ calls[p].at = "hash"
    /\ hashers' = [hashers EXCEPT ![calls[p].hasher] = Reset(@)]
    /\ calls' = [calls EXCEPT ![p].at = "write", ![p].written = 0]
    /\ UNCHANGED <<pc, codecVars, session>>

\* transaction.go lines 398-407, one write at a time
HashWrite(p) ==
    /\ pc = "session" /\ calls[p].at = "write"
    /\ calls[p].written < Len(Preimage(calls[p].c))
    /\ hashers' = [hashers EXCEPT ![calls[p].hasher] =
                      Write(@, Preimage(calls[p].c)[calls[p].written + 1])]
    /\ calls' = [calls EXCEPT ![p].written = @ + 1]
    /\ UNCHANGED <<pc, codecVars, session>>

\* transaction.go line 409, transaction_session.go lines 135-141
HashSum(p) ==
    /\ pc = "session" /\ calls[p].at = "write"
    /\ calls[p].written = Len(Preimage(calls[p].c))
    /\ hashers' = [hashers EXCEPT ![calls[p].hasher] = AfterSum(@)]
    /\ calls' = [calls EXCEPT ![p] =
          [@ EXCEPT !.at = "sign", !.toSign = Sum(hashers[calls[p].hasher]),
                    !.input.PayloadRoot =
                        PayloadRootOf(calls[p].c, Sum(hashers[calls[p].hasher]))]]
    /\ UNCHANGED <<pc, codecVars, session>>

\* lines 145-150
Sign(p) ==
    /\ pc = "session" /\ calls[p].at = "sign"
    /\ LET signature == SignData(session.wallet, calls[p].toSign)
       IN  calls' = [calls EXCEPT ![p] =
               IF signature.st # "ok"
               THEN [@ EXCEPT !.at = "done",
                              !.out = Returned("err", "sign", EmptyTransaction,
                                               calls[p].toSign, EmptyInput)]
               ELSE [@ EXCEPT !.at = "send",
                              !.input.SenderSignature = BytesToHex(signature.sig)]]
    /\ UNCHANGED <<pc, codecVars, session, hashers>>

\* lines 153-190
Send(p, resp) ==
    /\ pc = "session" /\ calls[p].at = "send"
    /\ calls' = [calls EXCEPT ![p] =
          [@ EXCEPT !.at = "done", !.resp = resp,
                    !.out = Post(calls[p].input, calls[p].toSign, resp)]]
    /\ UNCHANGED <<pc, codecVars, session, hashers>>

CallGetSignatureCommitment(n, keyType, timestamp) ==
    /\ pc = "idle"
    /\ commitment' = [t |-> TransactionOf(n, keyType, timestamp),
                      out |-> GetSignatureCommitment(TransactionOf(n, keyType, timestamp),
                                                     GetHasherByType(keyType))]
    /\ pc' = "committed"
    /\ UNCHANGED <<value, encoded, wire, tampered, decoded, merkle, session, hashers, calls>>

Next ==
    \/ \E v \in Values, seed \in Seeds : CallEncode(v, seed)
    \/ \E b \in Crafted : Receive(b)
    \/ \E i \in 1..wire.len, b \in TamperBytes : SetByte(i, b)
    \/ \E n \in 0..wire.len : Reslice(n)
    \/ \E n \in 0..wire.len : Truncate(n)
    \/ \E b \in {0, 5} : Extend(b)
    \/ CallDecode
    \/ \E i \in 1..wire.len : WriteInput(i)
    \/ \E chunkSize \in 1..MaxChunk, depth \in 0..MaxDepth, modulusSizeBytes \in ModSizes,
          proofIndex \in 0..1 :
          \E n \in 0..(chunkSize * Pow2(depth) + 2) :
             CallHardBound(n, modulusSizeBytes, chunkSize, depth, proofIndex)
    \/ \E chunkSize \in 1..MaxChunk, modulusSizeBytes \in ExactModSizes, proofIndex \in 0..2 :
          \E n \in 0..(chunkSize * Pow2(MaxDepth) + 2) :
             CallGenerateMerkleTree(n, modulusSizeBytes, chunkSize, proofIndex)
    \/ \E n \in PayloadLens, keyType \in AnyKeyTypes, timestamp \in {0, 1700000000} :
          CallGetSignatureCommitment(n, keyType, timestamp)
    \/ \E s \in {x \in Sessions : x.wallet.privateKey} : NewSession(s)
    \/ \E s \in Sessions, payloadType \in PayloadTypes, n \in {0, 17, 1025},
          now \in {1700000000, 1700000001}, resp \in Responses :
          CallGenerateTransaction(s, Given(payloadType, n), now, resp)
    \/ \E p \in Procs, payloadType \in {"DATA", "CREATE_WALLET"} :
          Begin(p, Given(payloadType, LenFor(p)), TimeFor(p))
    \/ \E p \in Procs : Commit(p)
    \/ \E p \in Procs : HashReset(p)
    \/ \E p \in Procs : HashWrite(p)
    \/ \E p \in Procs : HashSum(p)
    \/ \E p \in Procs : Sign(p)
    \/ \E p \in Procs, resp \in {r \in Responses : r.body = "transaction"} : Send(p, resp)
    \/ \E keyType \in {KeyTypeSecp256k1, KeyTypeBLS12377}, how \in {"fresh", "written", "summed"} :
          MakeHasher(keyType, how)
    \/ \E n \in {1, 17, 1025}, timestamp \in {0, 1700000000}, own \in BOOLEAN :
          CallCommitAndHash(n, timestamp, own)
    \/ \E publicKeyHex \in PublicHexes, privateKeyHex \in PrivateHexes, keyType \in AnyKeyTypes :
          CallGetWalletFromHex(publicKeyHex, privateKeyHex, keyType)
    \/ \E wd \in Documents : CallFromJson(wd)
    \/ \E data \in Documents : CallLoadFromFile(data)
    \/ \E str \in TypeNames : CallParseTransactionType(str)
    \/ \E keyType \in KeyTypes : MakeKey(keyType)
    \/ \E hex \in PublicHexes \cup PrivateHexes : CallGeneratePublicKeyFromHex(hex)
    \/ \E hex \in PublicHexes \cup PrivateHexes : CallGeneratePrivateKeyFromHex(hex)

Spec == Init /\ [][Next]_vars

(***************************************************************************)
(* The wire format of section 4.3, read independently of Decode.           *)
(***************************************************************************)
WireBytes == SubSeq(wire.arr, 1, wire.len)

ScalarTags ==
    {TypeNull, TypeBool, TypeInt32, TypeInt64, TypeString, TypeBytes, TypeFloat32, TypeFloat64}

\* length of the full encoding that starts at offset off (0-based) of b:
\* 5 + declared length, or 9 + total body size for a container; -1 if the
\* header is cut off
WireSpan(b, off) ==
    IF off + 5 > Len(b) THEN -1
    ELSE IF b[off + 1] \in {TypeArray, TypeMap}
         THEN IF off + 9 > Len(b) THEN -1 ELSE 9 + Uint32(SubSeq(b, off + 6, off + 9))
         ELSE 5 + Uint32(SubSeq(b, off + 2, off + 5))

\* the [off, size] of up to n consecutive encodings of b from offset off on
RECURSIVE WireWalk(_, _, _)
WireWalk(b, off, n) ==
    IF n = 0 THEN <<>>
    ELSE LET sp == WireSpan(b, off)
         IN  IF sp < 0 \/ off + sp > Len(b) THEN <<>>
             ELSE <<[off |-> off, size |-> sp]>> \o WireWalk(b, off + sp, n - 1)

\* the bytes of the encoding at span r
WirePart(b, r) == SubSeq(b, r.off + 1, r.off + r.size)

\* the keys of a map encoding, in the order they lie on the wire
WireKeys(b) ==
    LET parts == WireWalk(b, 9, 2 * Uint32(SubSeq(b, 2, 5)))
    IN  [i \in 1..(Len(parts) \div 2) |-> WirePart(b, parts[2 * i - 1])]

\* offsets where the keys of the first n entries of a map encoding start
RECURSIVE KeyOffsets(_, _, _)
KeyOffsets(b, off, n) ==
    IF n = 0 \/ off >= Len(b) THEN <<>>
    ELSE <<off>> \o
         (LET ksp == WireSpan(b, off)
          IN  IF ksp < 0 \/ off + ksp > Len(b) THEN <<>>
              ELSE LET vsp == WireSpan(b, off + ksp)
                   IN  IF vsp < 0 \/ off + ksp + vsp > Len(b) THEN <<>>
                       ELSE KeyOffsets(b, off + ksp + vsp, n - 1))

\* C1: decoding the bytes Encode returned succeeds and gives the value back
C1_RoundTrip ==
    (pc = "decoded" /\ tampered = "no") => (decoded.st = "ok" /\ decoded.v = value)

\* C2: Encode writes the entries of a map in byte-wise ascending key order,
\* whatever order the map is ranged over: the bytes are the same for every
\* range order, the keys on the wire are the keys of the map in strictly
\* ascending order, and for {"b":1,"a":2} key "a" lies before key "b"
C2_CanonicalMapOrder ==
    (pc = "encoded" /\ encoded.st = "ok") =>
        /\ \A seed \in Seeds : Encode(value, seed) = encoded
        /\ value.k = "map" =>
              LET keys == WireKeys(encoded.b)
              IN  /\ Len(keys) = Cardinality(DOMAIN value.v)
                  /\ \A i \in 1..Len(keys) :
                        /\ keys[i][1] = TypeString
                        /\ SubSeq(keys[i], 6, Len(keys[i])) \in DOMAIN value.v
                  /\ \A i \in 1..(Len(keys) - 1) :
                        StrLess(SubSeq(keys[i], 6, Len(keys[i])),
                                SubSeq(keys[i + 1], 6, Len(keys[i + 1])))
        /\ value = Map(<<98>> :> Int32(1) @@ <<97>> :> Int32(2)) =>
              encoded.b = <<TypeMap, 0, 0, 0, 2, 0, 0, 0, 30,
                            TypeString, 0, 0, 0, 1, 97, TypeInt32, 0, 0, 0, 4, 0, 0, 0, 2,
                            TypeString, 0, 0, 0, 1, 98, TypeInt32, 0, 0, 0, 4, 0, 0, 0, 1>>

C2_Witness ==
    /\ pc = "encoded" /\ encoded.st = "ok"
    /\ value = Map(<<98>> :> Int32(1) @@ <<97>> :> Int32(2))

\* C3: Decode never panics, and returns either a value of a supported kind
\* with no error or no value with an error
C3_DecodeTotal ==
    pc = "decoded" =>
        \/ decoded.st = "ok" /\ decoded.v.k \in SupportedKinds
        \/ decoded.st = "err" /\ decoded.v = NoValue

\* C4: a scalar, string or bytes buffer whose declared length differs from
\* the number of bytes behind the 5-byte header is rejected with an error
C4_ScalarLengthChecked ==
    (/\ pc = "decoded"
     /\ wire.len >= 5
     /\ wire.arr[1] \in ScalarTags
     /\ Uint32(SubSeq(wire.arr, 2, 5)) # wire.len - 5) => decoded.st = "err"

\* C5: every child of an array or map is handed exactly its own encoding,
\* 5 + declared length for a scalar, string or bytes child and 9 + total
\* body size for an array or map child
C5_ChildSpans ==
    pc = "decoded" =>
        \A i \in 1..Len(decoded.reads) :
            decoded.reads[i].size = WireSpan(wire.arr, decoded.reads[i].off)

(***************************************************************************)
(* The wire-format table of section 4.3 as a predicate on bytes.           *)
(***************************************************************************)
TagOf(kind) ==
    CASE kind = "null" -> TypeNull     [] kind = "bool" -> TypeBool
      [] kind = "int32" -> TypeInt32   [] kind = "int64" -> TypeInt64
      [] kind = "string" -> TypeString [] kind = "bytes" -> TypeBytes
      [] kind = "array" -> TypeArray   [] kind = "map" -> TypeMap
      [] kind = "float32" -> TypeFloat32 [] kind = "float64" -> TypeFloat64

\* big-endian two's complement: byte i of the 32-bit word w
TwosComplement(w) ==
    [i \in 1..4 |-> CASE i = 1 -> IF w < 0 THEN 255 - ((-w - 1) \div 16777216)
                                           ELSE w \div 16777216
                      [] i = 2 -> IF w < 0 THEN 255 - (((-w - 1) \div 65536) % 256)
                                           ELSE (w \div 65536) % 256
                      [] i = 3 -> IF w < 0 THEN 255 - (((-w - 1) \div 256) % 256)
                                           ELSE (w \div 256) % 256
                      [] i = 4 -> IF w < 0 THEN 255 - ((-w - 1) % 256) ELSE w % 256]

\* the 4-byte big-endian count n, n < 2^24
Count4(b, n) == b[1] = 0 /\ b[2] = n \div 65536 /\ b[3] = (n \div 256) % 256 /\ b[4] = n % 256

RECURSIVE IsWireOf(_, _)
IsWireOf(b, v) ==
    /\ Len(b) >= 5
    /\ b[1] = TagOf(v.k)
    /\ IF v.k \in {"array", "map"}
       THEN /\ Len(b) >= 9
            /\ Count4(SubSeq(b, 2, 5), IF v.k = "array" THEN Len(v.v) ELSE Cardinality(DOMAIN v.v))
            /\ Count4(SubSeq(b, 6, 9), Len(b) - 9)
            /\ LET n == IF v.k = "array" THEN Len(v.v) ELSE 2 * Cardinality(DOMAIN v.v)
                   parts == WireWalk(b, 9, n)
               IN  /\ Len(parts) = n
                   /\ n = 0 => Len(b) = 9
                   /\ n > 0 => parts[n].off + parts[n].size = Len(b)
                   /\ IF v.k = "array"
                      THEN \A i \in 1..n : IsWireOf(WirePart(b, parts[i]), v.v[i])
                      ELSE \A i \in 1..(n \div 2) :
                              LET key == WirePart(b, parts[2 * i - 1])
                                  name == SubSeq(key, 6, Len(key))
                              IN  /\ IsWireOf(key, Str(name))
                                  /\ name \in DOMAIN v.v
                                  /\ IsWireOf(WirePart(b, parts[2 * i]), v.v[name])
       ELSE LET body == SubSeq(b, 6, Len(b))
            IN  /\ Count4(SubSeq(b, 2, 5), Len(body))
                /\ CASE v.k = "null" -> body = <<>>
                     [] v.k = "bool" -> body = IF v.v THEN <<1>> ELSE <<0>>
                     [] v.k \in {"int32", "float32"} -> body = TwosComplement(v.v)
                     [] v.k \in {"int64", "float64"} ->
                           body = TwosComplement(v.v[1]) \o TwosComplement(v.v[2])
                     [] OTHER -> body = v.v

\* C6: the bytes Encode returns follow the wire-format table: 5-byte header
\* (tag, big-endian body byte count) and body for scalars, strings and bytes;
\* 9-byte header (tag, count, total body size) for arrays and maps, the total
\* body size being the sum of the children's encoded lengths and the number
\* of bytes behind the header
C6_WireFormat ==
    (pc = "encoded" /\ encoded.st = "ok") =>
        /\ IsWireOf(encoded.b, value)
        /\ value = Null => encoded.b = <<0, 0, 0, 0, 0>>
        /\ value = Int32(5) => encoded.b = <<2, 0, 0, 0, 4, 0, 0, 0, 5>>
        /\ value = Int32(-1) => encoded.b = <<2, 0, 0, 0, 4, 255, 255, 255, 255>>

C6_Witness ==
    /\ pc = "encoded" /\ encoded.st = "ok"
    /\ value = Array(<<Array(<<Int32(5)>>), Int32(5)>>)
    /\ Len(encoded.b) = 36

RECURSIVE ContainsUnsupported(_)
ContainsUnsupported(v) ==
    CASE v.k = "array" -> \E i \in 1..Len(v.v) : ContainsUnsupported(v.v[i])
      [] v.k = "map"   -> \E key \in DOMAIN v.v : ContainsUnsupported(v.v[key])
      [] OTHER         -> v.k \notin SupportedKinds

\* C7: Encode of a value that is or contains, at any depth, a kind outside
\* the ten supported ones returns an error and no bytes
C7_UnsupportedFailsWhole ==
    (pc = "encoded" /\ ContainsUnsupported(value)) => (encoded.st = "err" /\ encoded.b = <<>>)

C7_Witness ==
    /\ pc = "encoded"
    /\ value = Array(<<Int32(5), PlainInt>>)
    /\ encoded.st = "err"

\* C8: Encode writes every map key with the String tag, and Decode of a Map
\* buffer one of whose keys carries another tag returns an error and no map
C8_StringKeysOnly ==
    /\ (pc = "encoded" /\ encoded.st = "ok" /\ value.k = "map") =>
          LET keys == WireKeys(encoded.b)
          IN  /\ Len(keys) = Cardinality(DOMAIN value.v)
              /\ \A i \in 1..Len(keys) : keys[i][1] = TypeString
    /\ (/\ pc = "decoded"
        /\ wire.len >= 9
        /\ wire.arr[1] = TypeMap
        /\ wire.len >= 9 + Uint32(SubSeq(wire.arr, 6, 9))
        /\ \E off \in {o \in 9..(wire.len - 1) :
                          \E j \in 1..Len(KeyOffsets(WireBytes, 9, Uint32(SubSeq(wire.arr, 2, 5)))) :
                              KeyOffsets(WireBytes, 9, Uint32(SubSeq(wire.arr, 2, 5)))[j] = o} :
              wire.arr[off + 1] # TypeString)
       => (decoded.st = "err" /\ decoded.v = NoValue)

\* C9: within the size bound the hard-bound builder succeeds with exactly
\* 2^depth leaves and a proof for index 0 that verifies against the root
C9_HardBoundSucceeds ==
    (/\ pc = "built"
     /\ merkle.op = "HardBound"
     /\ merkle.proofIndex = 0
     /\ Len(merkle.payload) <= merkle.chunkSize * Pow2(merkle.depth)) =>
        /\ merkle.out.st = "ok"
        /\ merkle.out.numLeaves = Pow2(merkle.depth)
        /\ VerifyProof("mimc_bn254", merkle.out.root, merkle.out.proofElements, 0,
                       merkle.out.numLeaves)

\* C10: beyond the size bound the hard-bound builder returns the size error,
\* nil root, nil proof, nil proof chunk and leaf count 0 without writing any
\* leaf; through GetSignatureCommitment the bound is 1024 bytes and the
\* commitment returned with the error is empty
C10_SizeBound ==
    /\ (pc = "built" /\ merkle.op = "HardBound"
           /\ Len(merkle.payload) > merkle.chunkSize * Pow2(merkle.depth)) =>
          merkle.out = [st |-> "err", err |-> "size", root |-> NilBytes, proofElements |-> <<>>,
                        proofChunk |-> NilBytes, numLeaves |-> 0, buf |-> <<>>]
    /\ pc = "committed" =>
          /\ Len(commitment.t.Payload) > 1024 =>
                commitment.out = [st |-> "err", err |-> "size", c |-> EmptyCommitment]
          /\ Len(commitment.t.Payload) <= 1024 => commitment.out.err # "size"

C10_Witness ==
    /\ pc = "committed"
    /\ Len(commitment.t.Payload) = 1025
    /\ commitment.out.st = "err"

\* C11: whatever a builder returns without error verifies against the
\* returned root for the requested index and leaf count, and a builder that
\* returns an error returns no root, no proof and leaf count 0
C11_SelfVerified ==
    pc = "built" =>
        /\ merkle.out.st = "ok" =>
              VerifyProof("mimc_bn254", merkle.out.root, merkle.out.proofElements,
                          merkle.proofIndex, merkle.out.numLeaves)
        /\ merkle.out.st = "err" =>
              /\ merkle.out.root = NilBytes
              /\ merkle.out.proofElements = <<>>
              /\ merkle.out.numLeaves = 0

C11_Witness ==
    /\ pc = "built"
    /\ merkle.op = "Exact"
    /\ merkle.proofIndex = 1
    /\ merkle.out.st = "ok"
    /\ merkle.out.numLeaves = 3

\* the leaf section 4.1 prescribes for index i: the raw chunk behind leading
\* zero bytes, modulusSizeBytes bytes in all
PaddedChunk(payload, modulusSizeBytes, chunkSize, i) ==
    LET chunk == SubSeq(payload, i * chunkSize + 1, Min((i + 1) * chunkSize, Len(payload)))
    IN  Zeros(modulusSizeBytes - Len(chunk)) \o chunk

\* C12: in both modes every leaf written is the raw chunk of its index
\* padded with leading zero bytes only, so both modes write the same leaf
\* for the same payload and index
C12_LeadingZerosOnly ==
    (pc = "built" /\ merkle.out.st = "ok") =>
        \A i \in 0..(merkle.out.numLeaves - 1) :
            Segments(merkle.out.buf, merkle.modulus)[i + 1] =
                PaddedChunk(merkle.payload, merkle.modulus, merkle.chunkSize, i)

\* C13: exact mode builds ceil(len(payload) / chunkSize) leaves for every
\* payload, the empty payload and payloads beyond chunkSize * 2^DEPTH
\* included, and returns that number as the leaf count
C13_ExactLeafCount ==
    (/\ pc = "built"
     /\ merkle.op = "Exact"
     /\ merkle.chunkSize <= merkle.modulus
     /\ merkle.proofIndex = 0) =>
        /\ merkle.out.st = "ok"
        /\ merkle.out.numLeaves * merkle.chunkSize >= Len(merkle.payload)
        /\ (merkle.out.numLeaves - 1) * merkle.chunkSize < Len(merkle.payload)
        /\ Len(merkle.out.buf) = merkle.out.numLeaves * merkle.modulus

\* C14: with chunkSize <= modulus byte width and the payload within the
\* size bound (hard-bound mode; exact mode has none) a builder never asks
\* for a negative padding length, writes only leaves of modulus byte width
\* and returns without a panic
C14_ChunkFitsField ==
    (/\ pc = "built"
     /\ merkle.chunkSize <= merkle.modulus
     /\ merkle.op = "HardBound" => Len(merkle.payload) <= merkle.chunkSize * Pow2(merkle.depth)) =>
        /\ merkle.out.st # "panic"
        /\ Len(merkle.out.buf) % merkle.modulus = 0
        /\ merkle.out.st = "ok" => Len(merkle.out.buf) = merkle.out.numLeaves * merkle.modulus

\* the 8 bytes of a timestamp below 2^31, most significant first
BigEndian8(n) ==
    [i \in 1..8 |-> CASE i <= 4 -> 0
                      [] i = 5 -> (n \div 16777216) % 256
                      [] i = 6 -> (n \div 65536) % 256
                      [] i = 7 -> (n \div 256) % 256
                      [] OTHER -> n % 256]

\* the two halves of the SHA-256 digest of a string
High(str) == splitHash32(str)[1]
Low(str) == splitHash32(str)[2]

\* C15: the digest HashSignatureCommitment returns is taken over exactly ten
\* segments: the halves of blockchainId, from and to, the payload root, the
\* timestamp as 8 big-endian bytes, the halves of suggestor; nothing else
\* (no proof element, chunk index or leaf count) is written
C15_PreimageOrder ==
    \A i \in DOMAIN calls :
        (calls[i].op = "CommitAndHash" /\ calls[i].out.st = "ok") =>
            calls[i].sum.v.data =
                <<High(calls[i].t.BlockchainId), Low(calls[i].t.BlockchainId),
                  High(calls[i].t.From), Low(calls[i].t.From),
                  High(calls[i].t.To), Low(calls[i].t.To),
                  calls[i].out.c.PayloadRoot,
                  Data(BigEndian8(calls[i].t.SenderTimestamp)),
                  High(calls[i].t.Suggestor), Low(calls[i].t.Suggestor)>>

C15_Witness ==
    /\ Len(calls) >= 1
    /\ calls[1].op = "CommitAndHash"
    /\ calls[1].out.st = "ok"
    /\ calls[1].t.SenderTimestamp = 1700000000
    /\ calls[1].sum.v.data[8] = Data(<<0, 0, 0, 0, 101, 83, 241, 0>>)

\* C16: root and preimage hash depend on the inputs only: two runs on the
\* same inputs return the same commitment and the same digest, and the
\* digest is the one a never-used instance gives for the preimage, whatever
\* the instance held before and whether or not it built the commitment
C16_PureCommitment ==
    /\ \A i, j \in DOMAIN calls :
          (calls[i].op = "CommitAndHash" /\ calls[j].op = "CommitAndHash"
              /\ calls[i].t = calls[j].t) =>
                /\ calls[i].out = calls[j].out
                /\ calls[i].sum = calls[j].sum
    /\ \A i \in DOMAIN calls :
          (calls[i].op = "CommitAndHash" /\ calls[i].out.st = "ok") =>
              calls[i].sum =
                  Sum(WriteAll(NewHasher(GetHasherByType(calls[i].t.KeyType)),
                               Preimage(calls[i].out.c), 10))

C16_Witness ==
    /\ pc = "hasher"
    /\ Len(calls) = 2
    /\ session.hasher = "written"
    /\ calls[1].op = "CommitAndHash"
    /\ calls[1].t = calls[2].t
    /\ calls[1].out.st = "ok"
    /\ ~calls[1].own
    /\ calls[2].own

\* C19: key type BLS12377 selects the BW6-761 scalar field and MiMC over
\* BW6-761, every other key type value the BN254 scalar field and MiMC over
\* BN254, so the leaves of a commitment are as wide as a block of the hash
\* that produced its root
C19_FieldMatchesHash ==
    (pc = "committed" /\ commitment.out.st = "ok") =>
        /\ commitment.t.KeyType = KeyTypeBLS12377 =>
              /\ commitment.out.c.PayloadRoot.h = "mimc_bw6_761"
              /\ Len(commitment.out.c.ProofElements[1].v) = BLS_CURVE
        /\ commitment.t.KeyType # KeyTypeBLS12377 =>
              /\ commitment.out.c.PayloadRoot.h = "mimc_bn254"
              /\ Len(commitment.out.c.ProofElements[1].v) = ECDSA_CURVE
        /\ Len(commitment.out.c.ProofElements[1].v) = BlockSize(commitment.out.c.PayloadRoot.h)

C19_Witness ==
    /\ pc = "committed"
    /\ commitment.out.st = "ok"
    /\ commitment.t.KeyType = KeyTypeBLS12377
    /\ Len(commitment.t.Payload) = 17
    /\ Len(commitment.out.c.ProofElements[1].v) = 48

\* the calls of GenerateTransaction that have returned
Done == {i \in DOMAIN calls : calls[i].op = "GenerateTransaction" /\ calls[i].at = "done"}

\* the exact-mode root section 4.1 prescribes; a tree without leaves has none
ExactRoot(alg, payload, field) ==
    IF Len(payload) = 0 THEN NilBytes
    ELSE TreeRoot(alg, [j \in 1..((Len(payload) + 15) \div 16) |->
                          PaddedChunk(payload, field, 16, j - 1)])

C18_BoundBranch ==
    \A i \in Done :
        (calls[i].out.signed # NilBytes /\ calls[i].out.signed.k = "sum") =>
            LET in == calls[i].given
                alg == GetHasherByType(session.wallet.keyType)
                m == GenerateMerkleTreeWithHardBound(in.Payload, FieldOf(session.wallet.keyType),
                                                     16, 6, alg, 0)
                half(which, str) == [h |-> "sha256", k |-> which, v |-> str]
            IN  /\ m.st = "ok" /\ m.numLeaves = 64
                /\ calls[i].out.signed =
                      [h |-> alg, k |-> "sum",
                       v |-> [state |-> ZeroState,
                              data |-> <<half("high", in.BlockchainId), half("low", in.BlockchainId),
                                         half("high", session.wallet.Address),
                                         half("low", session.wallet.Address),
                                         half("high", in.To), half("low", in.To),
                                         m.root, Data(BigEndian8(calls[i].now)),
                                         half("high", session.suggestor),
                                         half("low", session.suggestor)>>]]
                /\ calls[i].out.posted # EmptyInput =>
                      /\ calls[i].out.posted.PayloadRoot = BytesToHex(m.root)
                      /\ calls[i].out.posted.PayloadRoot # BytesToHex(calls[i].out.signed)

C18_Witness ==
    /\ pc = "returned"
    /\ calls[1].given.PayloadType = "DATA"
    /\ Len(calls[1].given.Payload) = 17
    /\ calls[1].out.st = "ok"
    /\ calls[1].out.signed.k = "sum"
    /\ calls[1].out.posted.PayloadRoot.v.k = "node"

\* C20: goroutines that call GenerateTransaction on one session hold
\* different hasher instances, and under every interleaving each call
\* returns, hands to the signer and posts what it does when run alone
C20_NoSharedState ==
    /\ \A i, j \in DOMAIN calls :
          (pc = "session" /\ i # j /\ calls[i].hasher # 0) => calls[i].hasher # calls[j].hasher
    /\ \A i \in Done :
          calls[i].out = GenerateTransaction(session, calls[i].given, calls[i].now, calls[i].resp)

C20_Witness ==
    /\ pc = "session"
    /\ Done = {1, 2}
    /\ calls[1].out.st = "ok" /\ calls[1].out.signed.k = "sum"
    /\ calls[2].out.st = "ok" /\ calls[2].out.signed.k = "sum"
    /\ calls[1].hasher = 2

\* C21: no value an operation returned shares storage with the caller's
\* input buffer: when the caller overwrites a byte of the buffer after
\* Decode returned, the decoded value is what it was.
C21_InputNotShared ==
    [][(pc = "decoded" /\ pc' = "reused") => decoded'.v = decoded.v]_vars

\* the commitment bytes of a call: what its branch builds from the prepared
\* input with a hasher of the wallet's key type, NilBytes when the branch fails
CommitmentBytes(s, given, now) ==
    LET input == Prepare(s, given, now)
        alg == GetHasherByType(s.wallet.keyType)
    IN  IF Unbound(input.PayloadType)
        THEN GetUnboundCommitment(input, alg).root
        ELSE IF Len(input.Payload) > 1024 THEN NilBytes
        ELSE HashSignatureCommitment(NewHasher(alg), GetSignatureCommitment(input, alg).c).sum

\* what C22 says of a call that has returned out, given the commitment
\* bytes of its input
ReturnedInOrder(out, bytes) ==
    /\ out.signed # NilBytes => (bytes # NilBytes /\ out.signed = bytes)
    /\ out.posted # EmptyInput =>
          /\ out.signed # NilBytes
          /\ session.wallet.privateKey
          /\ out.posted.SenderSignature =
                BytesToHex([h |-> "sig", k |-> session.wallet.Address, v |-> out.signed])
    /\ (bytes = NilBytes \/ ~session.wallet.privateKey) =>
          /\ out.st = "err"
          /\ out.tx = EmptyTransaction
          /\ out.posted = EmptyInput

\* what C22 says of a call that is on its way, given the commitment bytes
\* of its input
StepsInOrder(call, bytes) ==
    /\ call.at \in {"new", "commit", "hash", "write"} =>
          /\ call.toSign = NilBytes
          /\ call.input.SenderSignature = NoHex
    /\ call.at \in {"sign", "send"} => (bytes # NilBytes /\ call.toSign = bytes)
    /\ call.at = "sign" => call.input.SenderSignature = NoHex
    /\ call.at = "send" =>
          /\ session.wallet.privateKey
          /\ call.input.SenderSignature =
                BytesToHex([h |-> "sig", k |-> session.wallet.Address, v |-> call.toSign])

\* C22: GenerateTransaction builds the commitment, then signs, then posts:
\* a call that has not built its commitment has handed nothing to the
\* signer, a call at the signer holds exactly the commitment bytes and has
\* no signature yet, a call at the POST carries the signature of those
\* bytes; a returned call whose commitment or signature failed has posted
\* nothing and returned an empty transaction with an error
C22_CommitSignPost ==
    pc \in {"returned", "session"} =>
        \A i \in DOMAIN calls :
            IF calls[i].at = "done"
            THEN ReturnedInOrder(calls[i].out,
                                 CommitmentBytes(session, calls[i].given, calls[i].now))
            ELSE calls[i].at # "new" =>
                    StepsInOrder(calls[i], CommitmentBytes(session, calls[i].given, calls[i].now))

C22_Witness ==
    /\ pc = "returned"
    /\ calls[1].given.PayloadType = "DATA"
    /\ calls[1].out.st = "ok"
    /\ calls[1].out.signed.k = "sum"
    /\ calls[1].out.posted.SenderSignature =
          BytesToHex([h |-> "sig", k |-> "alice", v |-> calls[1].out.signed])

\* C23: a call of GenerateTransaction that returns without an error returns
\* a transaction with a non-empty TransactionId, whatever the node
\* answered; an answer with a status other than 200 and 201, or with a body
\* that is not a transaction, makes the call return an error
C23_TransactionIdSet ==
    \A i \in Done :
        /\ calls[i].out.st = "ok" => calls[i].out.tx.TransactionId # ""
        /\ (calls[i].out.posted # EmptyInput
              /\ (calls[i].resp.status \notin {200, 201} \/ calls[i].resp.body # "transaction")) =>
                 calls[i].out.st = "err"

\* a string of an even number of the characters 0-9, a-f, A-F
IsHex(str) ==
    /\ Len(str) % 2 = 0
    /\ \A i \in 1..Len(str) : str[i] \in (48..57) \cup (97..102) \cup (65..70)

\* C24: GetWalletFromHex returns an error and a wallet with an empty
\* address whenever the public-key string or the private-key string is not
\* valid hex, for every key type; whenever it returns no error the
\* wallet's address is not empty
C24_InvalidHexRefused ==
    (pc = "wallet" /\ session.op = "GetWalletFromHex") =>
        /\ (~IsHex(session.PublicKeyHex) \/ ~IsHex(session.PrivateKeyHex)) =>
              /\ session.out.st = "err"
              /\ session.out.wallet.Address = NoAddress
        /\ session.out.st = "ok" => session.out.wallet.Address # NoAddress

C24_Witness ==
    /\ pc = "wallet" /\ session.op = "GetWalletFromHex"
    /\ session.KeyType = KeyTypeED25519
    /\ IsHex(session.PublicKeyHex) /\ session.PublicKeyHex # <<>>
    /\ session.PrivateKeyHex = BadDigit
    /\ session.out.st = "err"
    /\ Len(session.out.log) = 2

\* the lowercase hex of the SHA-256 digest of a lower-cased string
Sha256Hex(str) ==
    [h |-> "hex", k |-> "lower", v |-> [h |-> "sha256", k |-> "sum", v |-> ToLower(str)]]

\* C25: a wallet that GetWalletFromHex built without error gives back what
\* it was built from: GetPrivateKeyHex equals the supplied private-key hex
\* up to letter case, and Address is the lowercase hex SHA-256 of the
\* lower-cased supplied public-key hex
C25_WalletGivesBack ==
    (pc = "wallet" /\ session.op = "GetWalletFromHex" /\ session.out.st = "ok") =>
        /\ EqualFold(GetPrivateKeyHex(session.out.wallet.key), session.PrivateKeyHex)
        /\ session.out.wallet.Address = Sha256Hex(session.PublicKeyHex)

\* C26: whenever a Merkle builder returns without error, the proof chunk it
\* returns is byte for byte the leaf written to the tree at proofIndex, of
\* modulus byte width, also for a slot that lies beyond the payload
C26_ProofChunkIsLeaf ==
    (pc = "built" /\ merkle.out.st = "ok") =>
        /\ merkle.out.proofChunk =
              Data(Segments(merkle.out.buf, merkle.modulus)[merkle.proofIndex + 1])
        /\ Len(merkle.out.proofChunk.v) = merkle.modulus

\* Encode returned exactly the bytes b
EncodesTo(enc, b) == enc.st = "ok" /\ enc.b = b

\* C27: every buffer that Decode accepts without error is the canonical
\* encoding of what Decode returned for it: encoding the decoded value
\* again gives exactly the bytes of the buffer
C27_DecodeCanonicalOnly ==
    (pc = "decoded" /\ decoded.st = "ok") =>
        \A seed \in Seeds : EncodesTo(Encode(decoded.v, seed), SubSeq(wire.arr, 1, wire.len))

\* C28: ParseTransactionType inverts String for each of the 19 types from
\* TX_DATA to CONVERT_TOKEN, TX_CREATE_WALLET and TX_ALTER_WALLET included:
\* the name of a type in any letter case is parsed to that type with no
\* error, and every other string gives INVALID_TX_TYPE with an error
C28_ParseInvertsString ==
    pc = "parsed" =>
        /\ \A tt \in TxTypes :
              EqualFold(session.str, Chars(String(tt))) => session.out = Parsed("ok", tt)
        /\ (\A tt \in TxTypes : ~EqualFold(session.str, Chars(String(tt)))) =>
              session.out = Parsed("err", "INVALID_TX_TYPE")

\* the key object as import number i of the caller left it
KeyAfter(i) == IF i < Len(calls) THEN calls[i + 1].before ELSE session.key

\* C29: an import that returns an error leaves the key object as it was
\* before the call, its public and its private part, for every key type
C29_FailedImportLeavesKey ==
    pc \in {"key", "panicked"} =>
        \A i \in DOMAIN calls :
            calls[i].st = "err" =>
                /\ KeyAfter(i).publicKey = calls[i].before.publicKey
                /\ KeyAfter(i).privateKey = calls[i].before.privateKey

\* C30: on every path that builds a wallet from stored key strings
\* (GetWalletFromHex, FromJson, LoadFromFile) the first import is the public
\* one, the private import runs only after the public import returned no
\* error, and no path panics: the secp256k1 private import never runs on a
\* key whose public part is unset
C30_PublicBeforePrivate ==
    pc = "wallet" =>
        /\ Len(session.out.log) <= 2
        /\ session.out.st # "panic"
        /\ Len(session.out.log) >= 1 => session.out.log[1].op = "public"
        /\ Len(session.out.log) = 2 =>
              /\ session.out.log[1].st = "ok"
              /\ session.out.log[2].op = "private"
              /\ session.KeyType = KeyTypeSecp256k1 => session.out.log[2].publicSet

C30_Witness ==
    /\ pc = "wallet" /\ session.op = "LoadFromFile"
    /\ session.KeyType = KeyTypeSecp256k1
    /\ Len(session.out.log) = 2
    /\ session.out.log[2].op = "private" /\ session.out.log[2].st = "ok"
    /\ session.out.st = "ok"

====
